---- MODULE Spec2Model ----
(***************************************************************************)
(* Turn Execution Engine of the research agent (BaseAgent, its four tools  *)
(* and the controller events of IDRServer), modelled as a state machine.   *)
(*                                                                         *)
(* One session (project with its single root agent) is modelled.  Every    *)
(* coroutine is cut at its await points: an action of the model is the     *)
(* code executed between two suspensions of the asyncio event loop.        *)
(* Card ids are the decimal strings str(n); they are modelled by the       *)
(* number n, and None by 0.  Message texts are modelled by a pair          *)
(* <<text tag, card ids the text names>>.                                  *)
(***************************************************************************)
EXTENDS Integers, Sequences, FiniteSets, TLC

\* ------------------------------------------------------------------------
\* Bounds of the model
\* ------------------------------------------------------------------------
\* number of turn loops (BaseAgent.run) that may be started on the session
MaxRuns == 4
\* number of turn loops the controller lets overlap (SpecServer)
MaxConcurrentRuns == 2
\* total number of actions the generation service requests (Spec)
MaxToolCalls == 2
\* total number of actions the generation service requests (SpecServer)
MaxServerCalls == 1
\* total number of actions the generation service requests (SpecPolicy)
MaxPolicyCalls == 6
\* number of generation calls (Spec, SpecServer)
MaxTurns == 3
\* number of actions one generation response requests
MaxCallsPerTurn == 2
\* largest card id the generation service passes to create_note
MaxRefId == 3
\* number of action results in the histories of SpecView
MaxViewResults == 4
\* cards in the store of a traced session
MaxTraceCards == 4
\* length of the source text of _fuzzy_match_in_source (SpecFuzzy)
MaxSourceLen == 5
\* length of the text to match of _fuzzy_match_in_source (SpecFuzzy)
MaxTargetLen == 5
\* length of the texts of _apply_highlight_to_string (SpecHighlight)
MaxTextLen == 3
\* number of snippets of _apply_highlight_to_string (SpecHighlight)
MaxSnippets == 2
\* number of argument names of the schemas of SpecValidate
MaxArgNames == 3
\* total number of actions the generation service requests (SpecCounters)
MaxCounterCalls == 3
\* number of turn loops started on the session (SpecCounters)
MaxCounterRuns == 2
\* total number of actions the generation service requests (SpecFull)
MaxFullCalls == 4

RunIds == 1..MaxRuns

\* ------------------------------------------------------------------------
\* Program constants
\* ------------------------------------------------------------------------
RAW_INFO_COLLECTION_TOOLS == {"search_web", "scrape_webpage"}
MAX_RAW_INFO_TOOL_CALLS_BEFORE_NOTE == 3
MAX_NOTE_CALLS_BEFORE_SUMMARY == 3

VARIABLES
    card_dict,                            \* AgentState.card_dict: id -> card
    latest_card_id,                       \* AgentState.latest_card_id (0 = None)
    context_list,                         \* AgentState.context_list (history)
    chat_list,                            \* AgentState.chat_list (display)
    is_running,                           \* AgentState.is_running
    is_interrupted,                       \* AgentState.is_interrupted
    final_result_generated,               \* AgentState.final_result_generated
    final_result_card_id,                 \* AgentState.final_result_card_id (0 = None)
    raw_info_tool_calls_since_last_note,  \* AgentState counter
    note_calls_since_last_summary,        \* AgentState counter
    run,                                  \* per turn loop: position and locals
    task,                                 \* per turn loop: the tool task it monitors
    llm,                                  \* generation service: calls received, call
                                          \* ids issued, messages of the last request
    trace,                                \* InfoTraceAgent: trace_failed and the
                                          \* outcome of the last trace_source
    query,                                \* one tracing query: its conversation,
                                          \* attempts and outcome
    highlight,                            \* one call of the highlighting functions:
                                          \* arguments, locals and returned string
    validation                            \* one call of _validate_tool_arguments:
                                          \* schema, provided names and result

vars == <<card_dict, latest_card_id, context_list, chat_list, is_running,
          is_interrupted, final_result_generated, final_result_card_id,
          raw_info_tool_calls_since_last_note, note_calls_since_last_summary,
          run, task, llm, trace, query, highlight, validation>>

traceVars == <<trace, query, highlight, validation>>

agentVars == <<card_dict, latest_card_id, context_list, chat_list, is_running,
               is_interrupted, final_result_generated, final_result_card_id,
               raw_info_tool_calls_since_last_note, note_calls_since_last_summary>>

\* ------------------------------------------------------------------------
\* Data: history entries, display entries, cards, tool results
\* ------------------------------------------------------------------------
NoText == <<"", <<>>>>

\* an entry of context_list; the fields a kind of entry does not have are blank
ContextEntry(role, name, id, full, compact, summary, calls) ==
    [role |-> role, name |-> name, tool_call_id |-> id, content |-> full,
     compact_content |-> compact, is_progress_summary_note |-> summary,
     tool_call_ids |-> calls]

SystemEntry == ContextEntry("system", "", 0, NoText, NoText, FALSE, <<>>)
UserEntry == ContextEntry("user", "", 0, NoText, NoText, FALSE, <<>>)
AssistantEntry(ids) == ContextEntry("assistant", "", 0, NoText, NoText, FALSE, ids)

ToolResult(compact, full) == [compact |-> compact, full |-> full]

ErrorResult(tag) == ToolResult(<<tag, <<>>>>, <<tag, <<>>>>)

InterruptedResult == ErrorResult("Interrupted by user during execution")

SavedResult(card) == ToolResult(<<"saved in InfoCard, full result hidden", <<card>>>>,
                                <<"saved in InfoCard, full result shown", <<card>>>>)

FinishedResult == ErrorResult("Successfully finished this turn")

InvalidIdsResult(ids) == ToolResult(<<"Argument Error: invalid card IDs", ids>>,
                                    <<"Argument Error: invalid card IDs", ids>>)

\* an entry of chat_list
ChatEntry(type, status, text, card) ==
    [chat_type |-> type, status |-> status, text |-> text, bind_card_id |-> card]

ToolMessage(status, card) == ChatEntry("tool_message", status, "", card)

ProgressSummaryMessage(text, status) ==
    ChatEntry("progress_summary_message", status, text, 0)

Card(type, status, implicit, explicit, filled, creator) ==
    [card_type |-> type, status |-> status, card_ref_implicit |-> implicit,
     card_ref_explicit |-> explicit, filled |-> filled, creator |-> creator]

\* [previous_card_id] if previous_card_id else []
ImplicitRef(prev) == IF prev = 0 THEN <<>> ELSE <<prev>>

SetMax(S) == CHOOSE m \in S : \A x \in S : x <= m

Range(s) == {s[i] : i \in 1..Len(s)}

\* ProjectManager.generate_card_id: str(len(card_dict) + 1)
generate_card_id(cards) == Cardinality(DOMAIN cards) + 1

\* ProjectManager.add_info_card: card_dict[card_id] = card (a dict store)
PutCard(cards, id, card) ==
    [k \in (DOMAIN cards) \cup {id} |-> IF k = id THEN card ELSE cards[k]]

\* index of the last progress_summary_message of a display list, 0 if none
LastProgressIndex(chat) ==
    IF \E i \in 1..Len(chat) : chat[i].chat_type = "progress_summary_message"
    THEN SetMax({i \in 1..Len(chat) : chat[i].chat_type = "progress_summary_message"})
    ELSE 0

\* the loop "for message in reversed(chat_list): ... status = completed; break"
CloseLastProgress(chat) ==
    [i \in 1..Len(chat) |->
        IF i = LastProgressIndex(chat) THEN [chat[i] EXCEPT !.status = "completed"]
        ELSE chat[i]]

\* ------------------------------------------------------------------------
\* BaseAgent._cleanup_interrupted_states
\* ------------------------------------------------------------------------
\* step 1 and 4: in_progress tool messages become cancelled, the last
\* progress summary is closed and an "Interrupted" one is appended
CleanupChat(chat) ==
    LET cancelled == [i \in 1..Len(chat) |->
                        IF chat[i].chat_type = "tool_message" /\ chat[i].status = "in_progress"
                        THEN [chat[i] EXCEPT !.status = "cancelled"]
                        ELSE chat[i]]
    IN Append(CloseLastProgress(cancelled), ProgressSummaryMessage("Interrupted", "cancelled"))

cards_to_remove(cards) == {k \in DOMAIN cards : cards[k].status = "in_progress"}

\* step 2: in_progress cards are deleted from card_dict
CleanupCards(cards) == [k \in (DOMAIN cards) \ cards_to_remove(cards) |-> cards[k]]

\* step 3 left out: the pointer is kept
CleanupLatest_keeps_pointer(cards, latest) == latest

\* step 3: latest_card_id is recomputed only if it named a removed card
CleanupLatest(cards, latest) ==
    IF latest \in cards_to_remove(cards)
    THEN IF DOMAIN CleanupCards(cards) # {} THEN SetMax(DOMAIN CleanupCards(cards)) ELSE 0
    ELSE latest

\* ------------------------------------------------------------------------
\* Requested actions (tool calls of a generation response)
\* ------------------------------------------------------------------------
\* A requested action: its call id, its name and its argument payload.  json
\* is what json.loads makes of the payload: "object" (a dict whose keys are
\* keys), "unparseable" (JSONDecodeError), "array" or "number" (valid JSON that
\* is no dict).
ToolCall(name, json, keys, ids, summary, final) ==
    [id |-> 0, name |-> name, json |-> json, keys |-> keys, input_info_card_ids |-> ids,
     is_progress_summary_note |-> summary, is_final_note |-> final]

\* ResearchAgent._build_tool_functions
available_tool_functions == {"search_web", "scrape_webpage", "create_note", "finish_turn"}

\* the parameters of each tool function that partial() does not bind
ToolSchema(name) ==
    CASE name = "search_web" ->
           [required |-> {"search_term"}, properties |-> {"search_term"}]
      [] name = "scrape_webpage" ->
           [required |-> {"webpage_url"}, properties |-> {"webpage_url"}]
      [] name = "create_note" ->
           [required |-> {"input_info_card_ids", "title_for_note", "instruction_for_agent",
                          "is_final_note", "is_progress_summary_note"},
            properties |-> {"input_info_card_ids", "title_for_note", "instruction_for_agent",
                            "is_final_note", "is_progress_summary_note",
                            "concise_progress_summary"}]
      [] name = "finish_turn" ->
           [required |-> {"final_summary"}, properties |-> {"final_summary"}]
      [] OTHER -> [required |-> {}, properties |-> {}]

\* function_args.get("is_progress_summary_note", False)
IsProgressSummary(call) ==
    "is_progress_summary_note" \in call.keys /\ call.is_progress_summary_note

validate_arguments_unknown_first(found, required_params, properties, provided_params) ==
    IF ~found THEN ""
    ELSE IF properties # {} /\ provided_params \ properties # {}
         THEN "Argument Error: unknown argument(s)"
    ELSE IF required_params \ provided_params # {}
         THEN "Argument Error: missing required argument(s)"
    ELSE ""

\* BaseAgent._validate_tool_arguments after _get_tool_schema: the error or
\* "" (None)
validate_arguments(found, required_params, properties, provided_params) ==
    IF ~found THEN ""
    ELSE IF required_params \ provided_params # {}
         THEN "Argument Error: missing required argument(s)"
    ELSE IF properties # {} /\ provided_params \ properties # {}
         THEN "Argument Error: unknown argument(s)"
    ELSE ""

\* BaseAgent._validate_tool_arguments on the tools of the research agent
validate_tool_arguments(name, keys) ==
    validate_arguments(name \in available_tool_functions, ToolSchema(name).required,
                       ToolSchema(name).properties, keys)

\* the acquisition ceiling compared with > instead of >=
check_note_creation_enforcement_off_by_one(call, raw, notes) ==
    IF call.name \in RAW_INFO_COLLECTION_TOOLS /\ raw > MAX_RAW_INFO_TOOL_CALLS_BEFORE_NOTE
    THEN "Error: raw information collection tool calls without creating a note"
    ELSE IF call.name = "create_note" /\ ~IsProgressSummary(call)
            /\ notes >= MAX_NOTE_CALLS_BEFORE_SUMMARY
    THEN "Error: create_note calls without creating a progress summary note"
    ELSE ""

\* BaseAgent._check_note_creation_enforcement: the error or "" (None)
check_note_creation_enforcement(call, raw, notes) ==
    IF call.name \in RAW_INFO_COLLECTION_TOOLS /\ raw >= MAX_RAW_INFO_TOOL_CALLS_BEFORE_NOTE
    THEN "Error: raw information collection tool calls without creating a note"
    ELSE IF call.name = "create_note" /\ ~IsProgressSummary(call)
            /\ notes >= MAX_NOTE_CALLS_BEFORE_SUMMARY
    THEN "Error: create_note calls without creating a progress summary note"
    ELSE ""

\* a note pays off one acquisition instead of resetting the counter
UpdatedRawCounter_pays_off_one(call, raw) ==
    IF call.name = "create_note" THEN raw - 1
    ELSE IF call.name \in RAW_INFO_COLLECTION_TOOLS THEN raw + 1
    ELSE raw

\* raw counter after BaseAgent._update_note_creation_counters
UpdatedRawCounter(call, raw) ==
    IF call.name = "create_note" THEN 0
    ELSE IF call.name \in RAW_INFO_COLLECTION_TOOLS THEN raw + 1
    ELSE raw

\* the summary branch forgotten: every create_note adds 1
UpdatedNoteCounter_no_reset(call, notes) ==
    IF call.name = "create_note" THEN notes + 1 ELSE notes

\* note counter after BaseAgent._update_note_creation_counters
UpdatedNoteCounter(call, notes) ==
    IF call.name = "create_note"
    THEN IF IsProgressSummary(call) THEN 0 ELSE notes + 1
    ELSE notes

\* Steps 1 to 5 of BaseAgent._execute_single_tool_call: what happens to a
\* requested action before it is launched.  kind is "reject" (an error
\* result is logged, tag is its text), "raise" (an exception leaves the
\* turn) or "launch".
PreLaunch(call, raw, notes) ==
    IF call.json = "unparseable"
    THEN [kind |-> "reject", tag |-> "Failed to parse tool arguments"]
    ELSE IF call.json = "number"
    THEN [kind |-> "raise", tag |-> "TypeError"]       \* "error" in 5
    ELSE IF call.json = "object" /\ "error" \in call.keys
    THEN [kind |-> "reject", tag |-> "value of the error argument"]
    ELSE IF call.name \notin available_tool_functions
    THEN [kind |-> "reject", tag |-> "Unknown tool"]
    ELSE IF call.json = "array"
    THEN [kind |-> "raise", tag |-> "AttributeError"]  \* [].keys()
    ELSE IF validate_tool_arguments(call.name, call.keys) # ""
    THEN [kind |-> "reject", tag |-> validate_tool_arguments(call.name, call.keys)]
    ELSE IF check_note_creation_enforcement(call, raw, notes) # ""
    THEN [kind |-> "reject", tag |-> check_note_creation_enforcement(call, raw, notes)]
    ELSE [kind |-> "launch", tag |-> ""]

\* BaseAgent._add_tool_result
add_tool_result(ctx, id, name, result, summary) ==
    Append(ctx, ContextEntry("tool", name, id, result.full, result.compact,
                             name = "create_note" /\ summary, <<>>))

\* ------------------------------------------------------------------------
\* BaseAgent._prepare_messages_for_llm
\* ------------------------------------------------------------------------
IsToolEntry(msg) == msg.role = "tool"

\* index of the last create_note tool result, -1 if none
last_create_note_idx(ctx) ==
    IF \E i \in 1..Len(ctx) : IsToolEntry(ctx[i]) /\ ctx[i].name = "create_note"
    THEN SetMax({i \in 1..Len(ctx) : IsToolEntry(ctx[i]) /\ ctx[i].name = "create_note"})
    ELSE -1

\* the summary flag not looked at: the cursor of every create_note result
last_progress_summary_idx_any_note(ctx) ==
    IF \E i \in 1..Len(ctx) : IsToolEntry(ctx[i]) /\ ctx[i].name = "create_note"
    THEN SetMax({i \in 1..Len(ctx) : IsToolEntry(ctx[i]) /\ ctx[i].name = "create_note"})
    ELSE -1

\* index of the last create_note tool result marked as progress summary, -1 if none
last_progress_summary_idx(ctx) ==
    IF \E i \in 1..Len(ctx) : /\ IsToolEntry(ctx[i]) /\ ctx[i].name = "create_note"
                              /\ ctx[i].is_progress_summary_note
    THEN SetMax({i \in 1..Len(ctx) : /\ IsToolEntry(ctx[i]) /\ ctx[i].name = "create_note"
                                     /\ ctx[i].is_progress_summary_note})
    ELSE -1

\* the cursor comparison with <= instead of <
use_compact_inclusive(ctx, i) ==
    IF ctx[i].name \in RAW_INFO_COLLECTION_TOOLS
    THEN last_create_note_idx(ctx) # -1 /\ i < last_create_note_idx(ctx)
    ELSE IF ctx[i].name = "create_note"
    THEN last_progress_summary_idx(ctx) # -1 /\ i <= last_progress_summary_idx(ctx)
    ELSE FALSE

\* the choice between the compact and the full content of tool result i
use_compact(ctx, i) ==
    IF ctx[i].name \in RAW_INFO_COLLECTION_TOOLS
    THEN last_create_note_idx(ctx) # -1 /\ i < last_create_note_idx(ctx)
    ELSE IF ctx[i].name = "create_note"
    THEN last_progress_summary_idx(ctx) # -1 /\ i < last_progress_summary_idx(ctx)
    ELSE FALSE

\* the message handed to the service for a tool result: tool_call_id, role,
\* name and the chosen content only
clean_msg(msg, compact) ==
    ContextEntry(msg.role, msg.name, msg.tool_call_id,
                 IF compact THEN msg.compact_content ELSE msg.content,
                 NoText, FALSE, <<>>)

prepare_messages_for_llm(ctx) ==
    [i \in 1..Len(ctx) |->
        IF IsToolEntry(ctx[i]) THEN clean_msg(ctx[i], use_compact(ctx, i)) ELSE ctx[i]]


\* ------------------------------------------------------------------------
\* State of the turn loops, the tool tasks and the generation service
\* ------------------------------------------------------------------------
\* pc: "idle" (not started), "prepare" (run, awaiting its first update),
\* "turn" (about to call execute_turn), "generating" (awaiting the
\* generation service), "exec" (between two requested actions), "monitor"
\* (in _monitor_task_with_interrupt), "turn_done" (execute_turn returned,
\* run awaits its update), "returned", "raised".
\* observed records whether this turn has read is_interrupted as true.
IdleRun == [pc |-> "idle", tool_calls |-> <<>>, idx |-> 0, last_turn |-> FALSE,
            observed |-> FALSE]

\* pc: "none", "t1" (tool awaits its first update or its provider),
\* "t1b" (create_note awaits the note content), "t2" (tool awaits its last
\* update), "done", "raised"
\* known records the ids in the store when the action was requested.
NoTask == [pc |-> "none", call |-> 0, card |-> 0, msg_index |-> 0,
           result |-> ErrorResult(""), known |-> {}]

ActivePcs == {"prepare", "turn", "generating", "exec", "monitor", "turn_done"}

\* An Optional[list]: None, or a list (of snippets, of nodes)
None == [is_none |-> TRUE, value |-> <<>>]

Some(v) == [is_none |-> FALSE, value |-> v]

\* an empty list taken for a true value
Truthy_not_none(l) == ~l.is_none

\* truth value of an Optional[list] in a condition
Truthy(l) == ~l.is_none /\ l.value # <<>>

\* TraceResultNode.__init__: children defaults to [].  content_to_trace
\* records the content _trace_node_recursive was called with for this node
\* (<<>> when it was never called), answers the answers _find_support_in_card
\* gave that call, one per predecessor asked.
TraceResultNode(card_id, support_content_list, card_main_content_with_highlight) ==
    [card_id |-> card_id,
     support_content_list |-> support_content_list,
     card_main_content_with_highlight |-> card_main_content_with_highlight,
     children |-> Some(<<>>),
     content_to_trace |-> <<>>,
     answers |-> <<>>]

\* InfoTraceAgent.__init__ (trace_failed = False), before any trace_source.
\* outcome: "none", "running", "returned", "raised".  entered_with records trace_failed
\* at the entry of the last trace_source, find_support_log the answers of
\* _find_support_in_card in the order of the calls.
NoTrace == [trace_failed |-> FALSE, outcome |-> "none", card_id |-> 0,
            status |-> "Running", trace_result_tree |-> None,
            entered_with |-> FALSE, find_support_log |-> <<>>]

\* a value of a snippets field in the arguments of a response.  type is the
\* JSON type ("absent" when the key is missing); for a string, repairable
\* tells whether _try_parse_stringified_list recovers the list in value.
ListValue(type, value, repairable) == [type |-> type, value |-> value, repairable |-> repairable]

\* a response of the generation service to a tracing query
Response(tool_calls, name, json, has_support, list) ==
    [tool_calls |-> tool_calls, name |-> name, json |-> json,
     has_support |-> has_support, list |-> list]

NoResponse == Response(FALSE, "", "invalid", FALSE, ListValue("absent", <<>>, FALSE))

\* what a tracing query returns: has_support and the snippets
QueryResult(has_support, list) == [has_support |-> has_support, list |-> list]

\* outcome: "none", "pending", "returned", "raised"
NoQuery == [kind |-> "none", attempt |-> 0, messages |-> <<>>, outcome |-> "none",
            response |-> NoResponse, result |-> QueryResult(FALSE, None)]

\* one call of _fuzzy_match_in_source or _apply_highlight_to_string: op is
\* "none", "fuzzy" or "apply"; text is the source text, snippets the texts to
\* match; ranges and merged are the locals of _apply_highlight_to_string
NoHighlight == [op |-> "none", text |-> <<>>, snippets |-> <<>>, ranges |-> <<>>,
                merged |-> <<>>, result |-> <<>>, done |-> FALSE]

\* a tool schema as _get_tool_schema finds it: found is false when no tool
\* of that name is declared
Schema(found, required, properties) ==
    [found |-> found, required |-> required, properties |-> properties]

\* one call of _validate_tool_arguments: result is the error or "" (None)
NoValidation == [schema |-> Schema(FALSE, {}, {}), provided |-> {}, result |-> "",
                 done |-> FALSE]

Init ==
    /\ card_dict = <<>>
    /\ latest_card_id = 0
    /\ context_list = <<>>
    /\ chat_list = <<>>
    /\ is_running = FALSE
    /\ is_interrupted = FALSE
    /\ final_result_generated = FALSE
    /\ final_result_card_id = 0
    /\ raw_info_tool_calls_since_last_note = 0
    /\ note_calls_since_last_summary = 0
    /\ run = [r \in RunIds |-> IdleRun]
    /\ task = [r \in RunIds |-> NoTask]
    /\ llm = [turns |-> 0, calls |-> 0, messages |-> <<>>]
    /\ trace = NoTrace
    /\ query = NoQuery
    /\ validation = NoValidation
    /\ highlight = NoHighlight

\* ------------------------------------------------------------------------
\* Controller events (IDRServer)
\* ------------------------------------------------------------------------
\* f2b_interrupt_agent (setting a flag that is already set changes nothing)
f2b_interrupt_agent ==
    /\ ~is_interrupted
    /\ is_interrupted' = TRUE
    /\ UNCHANGED <<card_dict, latest_card_id, context_list, chat_list, is_running,
                   final_result_generated, final_result_card_id,
                   raw_info_tool_calls_since_last_note, note_calls_since_last_summary,
                   run, task, llm>>
    /\ UNCHANGED traceVars

\* f2b_start_research: the root agent's run is created as a task; its first
\* segment sets is_running and awaits send_project_update
f2b_start_research ==
    /\ run[1].pc = "idle"
    /\ is_running' = TRUE
    /\ run' = [run EXCEPT ![1] = [IdleRun EXCEPT !.pc = "prepare"]]
    /\ UNCHANGED <<card_dict, latest_card_id, context_list, chat_list, is_interrupted,
                   final_result_generated, final_result_card_id,
                   raw_info_tool_calls_since_last_note, note_calls_since_last_summary,
                   task, llm>>
    /\ UNCHANGED traceVars

\* f2b_send_message_to_agent: continue_agent is created as a task; it clears
\* the two flags and enters run.  The handler has no condition on is_running.
continue_agent(r) ==
    /\ r > 1
    /\ run[r].pc = "idle"
    /\ run[r - 1].pc # "idle"
    /\ is_interrupted' = FALSE
    /\ final_result_generated' = FALSE
    /\ is_running' = TRUE
    /\ run' = [run EXCEPT ![r] = [IdleRun EXCEPT !.pc = "prepare"]]
    /\ UNCHANGED <<card_dict, latest_card_id, context_list, chat_list,
                   final_result_card_id, raw_info_tool_calls_since_last_note,
                   note_calls_since_last_summary, task, llm>>
    /\ UNCHANGED traceVars

\* the operator sends a follow-up message only while no turn loop is active
f2b_send_message_when_idle(r) ==
    /\ \A q \in RunIds : run[q].pc \notin ActivePcs
    /\ continue_agent(r)

\* the operator sends a follow-up message at any time
f2b_send_message_to_agent(r) ==
    /\ Cardinality({q \in RunIds : run[q].pc \in ActivePcs}) < MaxConcurrentRuns
    /\ continue_agent(r)

\* ------------------------------------------------------------------------
\* BaseAgent.run and BaseAgent.execute_turn
\* ------------------------------------------------------------------------
\* run, steps 2 and 3: the "Start" progress entry and _prepare_user_message
prepare_user_message(r) ==
    /\ run[r].pc = "prepare"
    /\ LET id == generate_card_id(card_dict)
       IN /\ context_list' = Append(context_list, UserEntry)
          /\ card_dict' = PutCard(card_dict, id,
                                  Card("user_requirement", "completed",
                                       ImplicitRef(latest_card_id), <<>>, TRUE, 0))
          /\ latest_card_id' = id
          /\ chat_list' = chat_list \o <<ProgressSummaryMessage("Start", "in_progress"),
                                         ChatEntry("user_message", "", "", id)>>
    /\ run' = [run EXCEPT ![r].pc = "turn"]
    /\ UNCHANGED <<is_running, is_interrupted, final_result_generated,
                   final_result_card_id, raw_info_tool_calls_since_last_note,
                   note_calls_since_last_summary, task, llm>>
    /\ UNCHANGED traceVars

add_system_message_unconditional(ctx) == <<SystemEntry>> \o ctx

\* BaseAgent.add_system_message
add_system_message(ctx) ==
    IF ctx = <<>> \/ ctx[1].role # "system" THEN <<SystemEntry>> \o ctx ELSE ctx

turn_start_compacts_history(r) ==
    /\ run[r].pc = "turn"
    /\ IF is_interrupted
       THEN /\ chat_list' = CleanupChat(chat_list)
            /\ card_dict' = CleanupCards(card_dict)
            /\ latest_card_id' = CleanupLatest(card_dict, latest_card_id)
            /\ run' = [run EXCEPT ![r].pc = "turn_done", ![r].last_turn = TRUE,
                                  ![r].observed = TRUE]
            /\ UNCHANGED <<context_list, llm>>
       ELSE /\ context_list' = prepare_messages_for_llm(add_system_message(context_list))
            /\ llm' = [llm EXCEPT !.messages = prepare_messages_for_llm(context_list')]
            /\ run' = [run EXCEPT ![r].pc = "generating", ![r].observed = FALSE]
            /\ UNCHANGED <<chat_list, card_dict, latest_card_id>>
    /\ UNCHANGED <<is_running, is_interrupted, final_result_generated,
                   final_result_card_id, raw_info_tool_calls_since_last_note,
                   note_calls_since_last_summary, task>>
    /\ UNCHANGED traceVars

\* execute_turn up to the generation call, whose request carries the view
turn_start(r) ==
    /\ run[r].pc = "turn"
    /\ IF is_interrupted
       THEN /\ chat_list' = CleanupChat(chat_list)
            /\ card_dict' = CleanupCards(card_dict)
            /\ latest_card_id' = CleanupLatest(card_dict, latest_card_id)
            /\ run' = [run EXCEPT ![r].pc = "turn_done", ![r].last_turn = TRUE,
                                  ![r].observed = TRUE]
            /\ UNCHANGED <<context_list, llm>>
       ELSE /\ context_list' = add_system_message(context_list)
            /\ llm' = [llm EXCEPT !.messages = prepare_messages_for_llm(context_list')]
            /\ run' = [run EXCEPT ![r].pc = "generating", ![r].observed = FALSE]
            /\ UNCHANGED <<chat_list, card_dict, latest_card_id>>
    /\ UNCHANGED <<is_running, is_interrupted, final_result_generated,
                   final_result_card_id, raw_info_tool_calls_since_last_note,
                   note_calls_since_last_summary, task>>
    /\ UNCHANGED traceVars

\* ------------------------------------------------------------------------
\* Responses of the generation service
\* ------------------------------------------------------------------------
SearchCall == ToolCall("search_web", "object", {"search_term"}, <<>>, FALSE, FALSE)

ScrapeCall == ToolCall("scrape_webpage", "object", {"webpage_url"}, <<>>, FALSE, FALSE)

NoteCall(ids, summary, final) ==
    ToolCall("create_note", "object",
             ToolSchema("create_note").required
                 \cup (IF summary THEN {"concise_progress_summary"} ELSE {}),
             ids, summary, final)

FinishCall == ToolCall("finish_turn", "object", {"final_summary"}, <<>>, FALSE, FALSE)

\* requests that are not well formed
UnknownToolCall == ToolCall("bogus_tool", "object", {}, <<>>, FALSE, FALSE)
UnparseableCall == ToolCall("search_web", "unparseable", {}, <<>>, FALSE, FALSE)
ArrayCall == ToolCall("search_web", "array", {}, <<>>, FALSE, FALSE)
NumberCall == ToolCall("bogus_tool", "number", {}, <<>>, FALSE, FALSE)
MissingArgCall == ToolCall("create_note", "object", {"title_for_note"}, <<>>, FALSE, FALSE)
UnknownArgCall == ToolCall("search_web", "object", {"search_term", "bogus"}, <<>>, FALSE, FALSE)
\* a well-formed object with an argument named "error" for an unknown action
ErrorKeyCall == ToolCall("bogus_tool", "object", {"error"}, <<>>, FALSE, FALSE)

\* the lists of input card ids the service passes to create_note
InputIdLists == {<<k>> : k \in 1..MaxRefId}

\* every request the service makes in Spec
AllCalls ==
    {SearchCall, ScrapeCall, FinishCall, UnknownToolCall, UnparseableCall, ArrayCall,
     NumberCall, MissingArgCall, UnknownArgCall, NoteCall(<<1>>, FALSE, TRUE)}
    \cup {NoteCall(ids, summary, FALSE) : ids \in InputIdLists, summary \in BOOLEAN}

\* the requests of SpecPolicy: well-formed acquisition actions and notes
PolicyCalls == {SearchCall, ScrapeCall, NoteCall(<<1>>, FALSE, FALSE)}

\* the requests of SpecSummary: well-formed notes, summary or not, and searches
SummaryCalls == {SearchCall, NoteCall(<<1>>, FALSE, FALSE), NoteCall(<<1>>, TRUE, FALSE)}

\* the requests of SpecActions: launched actions, finish_turn and actions
\* rejected before launch
ActionCalls ==
    {SearchCall, NoteCall(<<1>>, FALSE, FALSE), FinishCall, UnknownToolCall}

\* the requests of SpecChecks: one request for every check that can fail
CheckCalls ==
    {SearchCall, NoteCall(<<1>>, FALSE, FALSE), UnknownToolCall, UnparseableCall, ArrayCall,
     NumberCall, MissingArgCall, UnknownArgCall, ErrorKeyCall}

\* the requests of SpecCounters: the actions the policy counts
CounterCalls == {SearchCall, NoteCall(<<1>>, FALSE, FALSE)}

\* the requests of SpecCeilings: searches, a note on the user requirement and
\* a note on an id that names no card
CeilingCalls ==
    {SearchCall, NoteCall(<<1>>, FALSE, FALSE), NoteCall(<<MaxRefId + MaxPolicyCalls>>, FALSE, FALSE)}

\* the requests of SpecResults: a launched action, finish_turn and an action
\* rejected before launch
ResultCalls == {SearchCall, FinishCall, UnknownToolCall}

\* the requests of SpecTurn
TurnCalls == {SearchCall, FinishCall}

\* the requests of SpecServer
ServerCalls == {SearchCall, FinishCall, NoteCall(<<1>>, FALSE, FALSE)}

SeqsUpTo(S, n) == UNION {[1..k -> S] : k \in 0..n}

\* call ids are issued in order by the service
WithIds(calls, first) == [i \in 1..Len(calls) |-> [calls[i] EXCEPT !.id = first + i]]

\* the response has text: it requests nothing, or finish_turn's final_summary
\* replaces the content
HasContent(calls) ==
    \/ calls = <<>>
    \/ \E i \in 1..Len(calls) : calls[i].name = "finish_turn" /\ calls[i].json = "object"
                                /\ "final_summary" \in calls[i].keys

\* execute_turn, steps 1 to 4: the response of the generation service arrives
llm_response(r, Calls, maxCalls) ==
    /\ run[r].pc = "generating"
    /\ llm.turns < MaxTurns
    /\ \E calls \in SeqsUpTo(Calls, MaxCallsPerTurn) :
         /\ llm.calls + Len(calls) <= maxCalls
         /\ llm' = [llm EXCEPT !.turns = @ + 1, !.calls = @ + Len(calls)]
         /\ context_list' =
                Append(context_list,
                       AssistantEntry([i \in 1..Len(calls) |-> llm.calls + i]))
         /\ chat_list' = IF HasContent(calls)
                         THEN Append(chat_list, ChatEntry("assistant_message", "", "", 0))
                         ELSE chat_list
         /\ run' = [run EXCEPT ![r] =
                       IF calls = <<>>
                       THEN [@ EXCEPT !.pc = "turn_done", !.last_turn = TRUE]
                       ELSE [@ EXCEPT !.pc = "exec", !.idx = 1,
                                      !.tool_calls = WithIds(calls, llm.calls)]]
    /\ UNCHANGED <<card_dict, latest_card_id, is_running, is_interrupted,
                   final_result_generated, final_result_card_id,
                   raw_info_tool_calls_since_last_note, note_calls_since_last_summary,
                   task>>
    /\ UNCHANGED traceVars

\* ------------------------------------------------------------------------
\* BaseAgent._execute_single_tool_call
\* ------------------------------------------------------------------------
CardTypeOf(name) ==
    CASE name = "search_web" -> "web_search_result"
      [] name = "scrape_webpage" -> "webpage"
      [] OTHER -> "note"

CurrentCall(r) == run[r].tool_calls[run[r].idx]

\* the loop over tool_calls is left once an interrupt was seen
NextCall_stops_on_interrupt(r, observed) ==
    run' = [run EXCEPT ![r].idx = IF observed THEN Len(run[r].tool_calls) + 1 ELSE @ + 1,
                       ![r].pc = "exec",
                       ![r].observed = @ \/ observed]

\* the call is logged and the loop over tool_calls moves on
NextCall(r, observed) ==
    run' = [run EXCEPT ![r].idx = @ + 1, ![r].pc = "exec",
                       ![r].observed = @ \/ observed]

\* steps 1 and 2 of search_web_tool, scrape_webpage_tool and create_note_tool:
\* the in_progress display entry and the in_progress card; the tool then
\* awaits send_project_update
start_card_tool(r, call) ==
    LET id == generate_card_id(card_dict)
    IN /\ chat_list' = Append(chat_list, ToolMessage("in_progress", 0))
       /\ card_dict' = PutCard(card_dict, id,
                               Card(CardTypeOf(call.name), "in_progress",
                                    ImplicitRef(latest_card_id),
                                    IF call.name = "create_note"
                                    THEN call.input_info_card_ids ELSE <<>>,
                                    FALSE, call.id))
       /\ latest_card_id' = id
       /\ task' = [task EXCEPT ![r] = [pc |-> "t1", call |-> call.id, card |-> id,
                                       msg_index |-> Len(chat_list) + 1,
                                       result |-> SavedResult(id),
                                       known |-> DOMAIN card_dict]]
       /\ UNCHANGED <<is_running, final_result_generated>>

start_finish_turn_with_card(r, call) ==
    /\ final_result_generated' = TRUE
    /\ is_running' = FALSE
    /\ chat_list' = Append(CloseLastProgress(chat_list),
                           ProgressSummaryMessage("Finished", "completed"))
    /\ task' = [task EXCEPT ![r] = [pc |-> "t2", call |-> call.id, card |-> 0,
                                    msg_index |-> 0, result |-> FinishedResult,
                                    known |-> DOMAIN card_dict]]
    /\ card_dict' = PutCard(card_dict, generate_card_id(card_dict),
                            Card("note", "completed", ImplicitRef(latest_card_id),
                                 <<>>, TRUE, call.id))
    /\ latest_card_id' = generate_card_id(card_dict)

\* finish_turn_tool up to its send_project_update
start_finish_turn(r, call) ==
    /\ final_result_generated' = TRUE
    /\ is_running' = FALSE
    /\ chat_list' = Append(CloseLastProgress(chat_list),
                           ProgressSummaryMessage("Finished", "completed"))
    /\ task' = [task EXCEPT ![r] = [pc |-> "t2", call |-> call.id, card |-> 0,
                                    msg_index |-> 0, result |-> FinishedResult,
                                    known |-> DOMAIN card_dict]]
    /\ UNCHANGED <<card_dict, latest_card_id>>

\* the monitor waits before it looks at the flag: the task runs first
cancelled_before_start_never == FALSE

\* _monitor_task_with_interrupt reads is_interrupted before it first
\* suspends: the task just created is cancelled before it has run
cancelled_before_start == is_interrupted

\* One requested action from its checks to the first suspension of the
\* monitor: it is rejected with an error result, or an exception leaves the
\* turn, or its task is created.  A task created while is_interrupted is
\* set is cancelled by the monitor before it has run; otherwise the monitor
\* waits and the task runs to its first suspension.
execute_single_tool_call(r) ==
    /\ run[r].pc = "exec"
    /\ run[r].idx <= Len(run[r].tool_calls)
    /\ LET call == CurrentCall(r)
           pre == PreLaunch(call, raw_info_tool_calls_since_last_note,
                            note_calls_since_last_summary)
       IN CASE pre.kind = "reject" ->
                 /\ context_list' = add_tool_result(context_list, call.id, call.name,
                                                    ErrorResult(pre.tag), FALSE)
                 /\ NextCall(r, FALSE)
                 /\ UNCHANGED <<card_dict, latest_card_id, chat_list, is_running,
                                final_result_generated, task,
                                raw_info_tool_calls_since_last_note,
                                note_calls_since_last_summary>>
            [] pre.kind = "raise" ->
                 /\ run' = [run EXCEPT ![r].pc = "raised"]
                 /\ UNCHANGED <<context_list, card_dict, latest_card_id, chat_list,
                                is_running, final_result_generated, task,
                                raw_info_tool_calls_since_last_note,
                                note_calls_since_last_summary>>
            [] pre.kind = "launch" /\ cancelled_before_start ->
                 /\ context_list' = add_tool_result(context_list, call.id, call.name,
                                                    InterruptedResult,
                                                    IsProgressSummary(call))
                 /\ raw_info_tool_calls_since_last_note' =
                        UpdatedRawCounter(call, raw_info_tool_calls_since_last_note)
                 /\ note_calls_since_last_summary' =
                        UpdatedNoteCounter(call, note_calls_since_last_summary)
                 /\ NextCall(r, TRUE)
                 /\ UNCHANGED <<card_dict, latest_card_id, chat_list, is_running,
                                final_result_generated, task>>
            [] pre.kind = "launch" /\ ~cancelled_before_start ->
                 /\ IF call.name = "finish_turn"
                    THEN start_finish_turn(r, call)
                    ELSE start_card_tool(r, call)
                 /\ run' = [run EXCEPT ![r].pc = "monitor"]
                 /\ UNCHANGED <<context_list, raw_info_tool_calls_since_last_note,
                                note_calls_since_last_summary>>
    /\ UNCHANGED <<is_interrupted, final_result_card_id, llm>>
    /\ UNCHANGED traceVars

\* ------------------------------------------------------------------------
\* The tool task between its suspensions
\* ------------------------------------------------------------------------
\* the tool holds its card object; the object is in the store while the
\* entry under its id is the card this call created
HoldsCard(r) ==
    /\ task[r].card \in DOMAIN card_dict
    /\ card_dict[task[r].card].creator = task[r].call

\* "card.status = completed" and the content assignment on the held object
CompleteCard(r) ==
    IF HoldsCard(r)
    THEN [card_dict EXCEPT ![task[r].card].status = "completed",
                           ![task[r].card].filled = TRUE]
    ELSE card_dict

\* ProjectManager.update_chat_message_4display with the completed tool message
UpdateToolMessage(chat, index, card) ==
    IF index \in 1..Len(chat)
    THEN [chat EXCEPT ![index] = ToolMessage("completed", card)]
    ELSE chat

\* create_note_tool step 4: the input ids that get_info_card does not find
invalid_card_ids(ids, cards) == SelectSeq(ids, LAMBDA k : k \notin DOMAIN cards)

\* read_info_card_content raises on a note or a webpage without content
ReadRaises(ids, cards) ==
    \E i \in 1..Len(ids) : /\ cards[ids[i]].card_type \in {"note", "webpage"}
                           /\ ~cards[ids[i]].filled

\* search_web_tool and scrape_webpage_tool, steps 4 to 7: the provider has
\* answered; the card is completed and the display entry replaced
provider_returns(r) ==
    /\ run[r].pc = "monitor"
    /\ task[r].pc = "t1"
    /\ CurrentCall(r).name \in RAW_INFO_COLLECTION_TOOLS
    /\ card_dict' = CompleteCard(r)
    /\ chat_list' = UpdateToolMessage(chat_list, task[r].msg_index, task[r].card)
    /\ task' = [task EXCEPT ![r].pc = "t2"]
    /\ UNCHANGED <<latest_card_id, context_list, is_running, is_interrupted,
                   final_result_generated, final_result_card_id,
                   raw_info_tool_calls_since_last_note, note_calls_since_last_summary,
                   run, llm>>
    /\ UNCHANGED traceVars

\* create_note_tool step 4 up to the call of info_process_agent.create_note
note_validates_inputs(r) ==
    /\ run[r].pc = "monitor"
    /\ task[r].pc = "t1"
    /\ CurrentCall(r).name = "create_note"
    /\ LET ids == CurrentCall(r).input_info_card_ids
           invalid == invalid_card_ids(ids, card_dict)
       IN IF invalid # <<>>
          THEN /\ chat_list' = CleanupChat(chat_list)
               /\ card_dict' = CleanupCards(card_dict)
               /\ latest_card_id' = CleanupLatest(card_dict, latest_card_id)
               /\ task' = [task EXCEPT ![r].pc = "t2",
                                       ![r].result = InvalidIdsResult(invalid)]
          ELSE /\ task' = [task EXCEPT ![r].pc =
                              IF ReadRaises(ids, card_dict) THEN "raised" ELSE "t1b"]
               /\ UNCHANGED <<chat_list, card_dict, latest_card_id>>
    /\ UNCHANGED <<context_list, is_running, is_interrupted, final_result_generated,
                   final_result_card_id, raw_info_tool_calls_since_last_note,
                   note_calls_since_last_summary, run, llm>>
    /\ UNCHANGED traceVars

\* create_note_tool steps 5 to 9: the note content has arrived
note_completes(r) ==
    /\ run[r].pc = "monitor"
    /\ task[r].pc = "t1b"
    /\ LET call == CurrentCall(r)
           updated == UpdateToolMessage(chat_list, task[r].msg_index, task[r].card)
       IN /\ card_dict' = CompleteCard(r)
          /\ final_result_card_id' = IF call.is_final_note THEN task[r].card
                                     ELSE final_result_card_id
          /\ chat_list' =
                IF call.is_progress_summary_note /\ "concise_progress_summary" \in call.keys
                THEN Append(CloseLastProgress(updated),
                            ProgressSummaryMessage("concise", "in_progress"))
                ELSE updated
    /\ task' = [task EXCEPT ![r].pc = "t2"]
    /\ UNCHANGED <<latest_card_id, context_list, is_running, is_interrupted,
                   final_result_generated, raw_info_tool_calls_since_last_note,
                   note_calls_since_last_summary, run, llm>>
    /\ UNCHANGED traceVars

\* the search, scrape or note provider fails: the exception ends the task
provider_raises(r) ==
    /\ run[r].pc = "monitor"
    /\ \/ task[r].pc = "t1" /\ CurrentCall(r).name \in RAW_INFO_COLLECTION_TOOLS
       \/ task[r].pc = "t1b"
    /\ task' = [task EXCEPT ![r].pc = "raised"]
    /\ UNCHANGED <<agentVars, run, llm>>
    /\ UNCHANGED traceVars

\* the tool's last send_project_update is over and it returns its ToolResult
tool_returns(r) ==
    /\ run[r].pc = "monitor"
    /\ task[r].pc = "t2"
    /\ task' = [task EXCEPT ![r].pc = "done"]
    /\ UNCHANGED <<agentVars, run, llm>>
    /\ UNCHANGED traceVars

\* ------------------------------------------------------------------------
\* BaseAgent._monitor_task_with_interrupt and the rest of the turn
\* ------------------------------------------------------------------------
monitor_task_with_interrupt_no_wait(r) ==
    /\ run[r].pc = "monitor"
    /\ task[r].pc # "none"
    /\ LET call == CurrentCall(r)
       IN CASE task[r].pc = "raised" ->
                 /\ run' = [run EXCEPT ![r].pc = "raised"]
                 /\ UNCHANGED <<context_list, raw_info_tool_calls_since_last_note,
                                note_calls_since_last_summary>>
            [] OTHER ->
                 /\ context_list' =
                        add_tool_result(context_list, call.id, call.name,
                                        IF task[r].pc = "done" THEN task[r].result
                                        ELSE InterruptedResult,
                                        IsProgressSummary(call))
                 /\ raw_info_tool_calls_since_last_note' =
                        UpdatedRawCounter(call, raw_info_tool_calls_since_last_note)
                 /\ note_calls_since_last_summary' =
                        UpdatedNoteCounter(call, note_calls_since_last_summary)
                 /\ NextCall(r, task[r].pc # "done")
    /\ task' = [task EXCEPT ![r] = NoTask]
    /\ UNCHANGED <<card_dict, latest_card_id, chat_list, is_running, is_interrupted,
                   final_result_generated, final_result_card_id, llm>>
    /\ UNCHANGED traceVars

\* The monitor wakes up.  A finished task gives its result (or its
\* exception); an unfinished one is cancelled if is_interrupted is set.  The
\* result is logged and the counters are updated (steps 6 and 7 of
\* _execute_single_tool_call).
monitor_task_with_interrupt(r) ==
    /\ run[r].pc = "monitor"
    /\ task[r].pc \in {"done", "raised"} \/ is_interrupted
    /\ LET call == CurrentCall(r)
       IN CASE task[r].pc = "raised" ->
                 /\ run' = [run EXCEPT ![r].pc = "raised"]
                 /\ UNCHANGED <<context_list, raw_info_tool_calls_since_last_note,
                                note_calls_since_last_summary>>
            [] OTHER ->
                 /\ context_list' =
                        add_tool_result(context_list, call.id, call.name,
                                        IF task[r].pc = "done" THEN task[r].result
                                        ELSE InterruptedResult,
                                        IsProgressSummary(call))
                 /\ raw_info_tool_calls_since_last_note' =
                        UpdatedRawCounter(call, raw_info_tool_calls_since_last_note)
                 /\ note_calls_since_last_summary' =
                        UpdatedNoteCounter(call, note_calls_since_last_summary)
                 /\ NextCall(r, task[r].pc # "done")
    /\ task' = [task EXCEPT ![r] = NoTask]
    /\ UNCHANGED <<card_dict, latest_card_id, chat_list, is_running, is_interrupted,
                   final_result_generated, final_result_card_id, llm>>
    /\ UNCHANGED traceVars

turn_end_ignores_interrupt(r) ==
    /\ run[r].pc = "exec"
    /\ run[r].idx > Len(run[r].tool_calls)
    /\ IF ~final_result_generated /\ is_interrupted
       THEN /\ chat_list' = CleanupChat(chat_list)
            /\ card_dict' = CleanupCards(card_dict)
            /\ latest_card_id' = CleanupLatest(card_dict, latest_card_id)
       ELSE UNCHANGED <<chat_list, card_dict, latest_card_id>>
    /\ run' = [run EXCEPT ![r].pc = "turn_done",
                          ![r].last_turn = final_result_generated]
    /\ UNCHANGED <<context_list, is_running, is_interrupted, final_result_generated,
                   final_result_card_id, raw_info_tool_calls_since_last_note,
                   note_calls_since_last_summary, task, llm>>
    /\ UNCHANGED traceVars

\* execute_turn after the loop over tool_calls
turn_end(r) ==
    /\ run[r].pc = "exec"
    /\ run[r].idx > Len(run[r].tool_calls)
    /\ IF ~final_result_generated /\ is_interrupted
       THEN /\ chat_list' = CleanupChat(chat_list)
            /\ card_dict' = CleanupCards(card_dict)
            /\ latest_card_id' = CleanupLatest(card_dict, latest_card_id)
       ELSE UNCHANGED <<chat_list, card_dict, latest_card_id>>
    /\ run' = [run EXCEPT ![r].pc = "turn_done",
                          ![r].last_turn = final_result_generated \/ is_interrupted]
    /\ UNCHANGED <<context_list, is_running, is_interrupted, final_result_generated,
                   final_result_card_id, raw_info_tool_calls_since_last_note,
                   note_calls_since_last_summary, task, llm>>
    /\ UNCHANGED traceVars

\* run, steps 4 and 5: after the update, the loop ends on last_turn
run_loop(r) ==
    /\ run[r].pc = "turn_done"
    /\ IF run[r].last_turn
       THEN /\ is_running' = FALSE
            /\ run' = [run EXCEPT ![r].pc = "returned"]
       ELSE /\ run' = [run EXCEPT ![r].pc = "turn"]
            /\ UNCHANGED is_running
    /\ UNCHANGED <<card_dict, latest_card_id, context_list, chat_list, is_interrupted,
                   final_result_generated, final_result_card_id,
                   raw_info_tool_calls_since_last_note, note_calls_since_last_summary,
                   task, llm>>
    /\ UNCHANGED traceVars

\* ------------------------------------------------------------------------
\* Specifications
\* ------------------------------------------------------------------------
\* one segment of a turn loop or of its tool task
AgentStep(r) ==
    \/ prepare_user_message(r)
    \/ turn_start(r)
    \/ execute_single_tool_call(r)
    \/ provider_returns(r)
    \/ note_validates_inputs(r)
    \/ note_completes(r)
    \/ provider_raises(r)
    \/ tool_returns(r)
    \/ monitor_task_with_interrupt(r)
    \/ turn_end(r)
    \/ run_loop(r)

\* Spec: the session with one turn loop at a time, any request of the service
Next ==
    \/ f2b_start_research
    \/ f2b_interrupt_agent
    \/ \E r \in RunIds : f2b_send_message_when_idle(r)
    \/ \E r \in RunIds : llm_response(r, AllCalls, MaxToolCalls)
    \/ \E r \in RunIds : AgentStep(r)

Spec == Init /\ [][Next]_vars

\* SpecPolicy: one turn loop, no interrupt, the service requests only
\* well-formed acquisition actions and notes
NextPolicy ==
    \/ f2b_start_research
    \/ \E r \in RunIds : llm_response(r, PolicyCalls, MaxPolicyCalls)
    \/ \E r \in RunIds : AgentStep(r)

SpecPolicy == Init /\ [][NextPolicy]_vars

\* SpecSummary: as SpecPolicy, the service requests summary and non-summary
\* notes and searches
NextSummary ==
    \/ f2b_start_research
    \/ \E r \in RunIds : llm_response(r, SummaryCalls, MaxPolicyCalls)
    \/ \E r \in RunIds : AgentStep(r)

SpecSummary == Init /\ [][NextSummary]_vars

\* SpecActions: as SpecPolicy, the service requests launched, finishing and
\* rejected actions
NextActions ==
    \/ f2b_start_research
    \/ \E r \in RunIds : llm_response(r, ActionCalls, MaxPolicyCalls)
    \/ \E r \in RunIds : AgentStep(r)

SpecActions == Init /\ [][NextActions]_vars

\* the segments of a turn loop whose actions are searches and finish_turn:
\* AgentStep without the segments of create_note
TurnStep(r) ==
    \/ prepare_user_message(r)
    \/ turn_start(r)
    \/ execute_single_tool_call(r)
    \/ provider_returns(r)
    \/ provider_raises(r)
    \/ tool_returns(r)
    \/ monitor_task_with_interrupt(r)
    \/ turn_end(r)
    \/ run_loop(r)

\* SpecTurn: as Spec, the service requests only searches and finish_turn
NextTurn ==
    \/ f2b_start_research
    \/ f2b_interrupt_agent
    \/ \E r \in RunIds : f2b_send_message_when_idle(r)
    \/ \E r \in RunIds : llm_response(r, TurnCalls, MaxToolCalls)
    \/ \E r \in RunIds : TurnStep(r)

SpecTurn == Init /\ [][NextTurn]_vars

\* SpecCounters: as Spec (interrupts, follow-up messages while no turn loop
\* is active, up to MaxCounterRuns turn loops), the service requests searches
\* and notes
NextCounters ==
    \/ f2b_start_research
    \/ f2b_interrupt_agent
    \/ \E r \in 1..MaxCounterRuns : f2b_send_message_when_idle(r)
    \/ \E r \in RunIds : llm_response(r, CounterCalls, MaxCounterCalls)
    \/ \E r \in RunIds : AgentStep(r)

SpecCounters == Init /\ [][NextCounters]_vars

\* SpecCeilings: as SpecPolicy, the service also requests notes that end
\* with the invalid-ids error
NextCeilings ==
    \/ f2b_start_research
    \/ \E r \in RunIds : llm_response(r, CeilingCalls, MaxPolicyCalls)
    \/ \E r \in RunIds : AgentStep(r)

SpecCeilings == Init /\ [][NextCeilings]_vars

\* SpecResults: as SpecCounters, the service requests searches, finish_turn
\* and an unknown action
NextResults ==
    \/ f2b_start_research
    \/ f2b_interrupt_agent
    \/ \E r \in 1..MaxCounterRuns : f2b_send_message_when_idle(r)
    \/ \E r \in RunIds : llm_response(r, ResultCalls, MaxCounterCalls)
    \/ \E r \in RunIds : TurnStep(r)

SpecResults == Init /\ [][NextResults]_vars

\* the operator interrupts while an action is in flight
f2b_interrupt_running_action ==
    /\ \E r \in RunIds : run[r].pc = "monitor"
    /\ f2b_interrupt_agent

\* the operator sends one follow-up message, once the interrupted loop is over
f2b_send_message_after_interrupt ==
    /\ is_interrupted
    /\ f2b_send_message_when_idle(2)

\* SpecFull: as SpecSummary, with an interrupt of an action in flight and the
\* turn loop of the follow-up message
NextFull ==
    \/ f2b_start_research
    \/ f2b_interrupt_running_action
    \/ f2b_send_message_after_interrupt
    \/ \E r \in RunIds : llm_response(r, SummaryCalls, MaxFullCalls)
    \/ \E r \in RunIds : AgentStep(r)

SpecFull == Init /\ [][NextFull]_vars

\* SpecChecks: as SpecPolicy, the service requests actions that fail each of
\* the checks made before launch
NextChecks ==
    \/ f2b_start_research
    \/ \E r \in RunIds : llm_response(r, CheckCalls, MaxToolCalls)
    \/ \E r \in RunIds : AgentStep(r)

SpecChecks == Init /\ [][NextChecks]_vars

\* SpecServer: the controller events as the server accepts them, a follow-up
\* message at any time
NextServer ==
    \/ f2b_start_research
    \/ f2b_interrupt_agent
    \/ \E r \in RunIds : f2b_send_message_to_agent(r)
    \/ \E r \in RunIds : llm_response(r, ServerCalls, MaxServerCalls)
    \/ \E r \in RunIds : AgentStep(r)

SpecServer == Init /\ [][NextServer]_vars

\* the event loop runs every task that is ready and the generation service
\* answers every call; the controller's events may or may not come
FairServer ==
    \A r \in RunIds :
        /\ WF_vars(AgentStep(r))
        /\ WF_vars(llm_response(r, ServerCalls, MaxServerCalls))

SpecServerFair == SpecServer /\ FairServer

\* ------------------------------------------------------------------------
\* Persistence (ProjectManager)
\* ------------------------------------------------------------------------
\* ProjectManager._serialize_agent_state_for_db: the document written for the
\* agent state (the fields the function lists)
serialize_agent_state_for_db ==
    [chat_list |-> chat_list,
     context_list |-> context_list,
     card_dict |-> [k \in DOMAIN card_dict |-> card_dict[k]],
     latest_card_id |-> latest_card_id,
     is_running |-> is_running,
     is_interrupted |-> is_interrupted,
     final_result_generated |-> final_result_generated,
     final_result_card_id |-> final_result_card_id]

\* the defaults of the fields of AgentState
AgentStateDefaults ==
    [chat_list |-> <<>>,
     context_list |-> <<>>,
     card_dict |-> <<>>,
     latest_card_id |-> 0,
     is_running |-> FALSE,
     is_interrupted |-> FALSE,
     final_result_generated |-> FALSE,
     final_result_card_id |-> 0,
     raw_info_tool_calls_since_last_note |-> 0,
     note_calls_since_last_summary |-> 0]

\* ProjectManager._deserialize_card_dict: each dumped card is rebuilt as the
\* card of its card_type
deserialize_card_dict(cards) ==
    [k \in DOMAIN cards |->
        Card(cards[k].card_type, cards[k].status, cards[k].card_ref_implicit,
             cards[k].card_ref_explicit, cards[k].filled, cards[k].creator)]

\* AgentState(**document) followed by _rehydrate_project_agents: a field the
\* document lacks takes its default
rehydrate_agent_state(doc) ==
    LET field(f) == IF f \in DOMAIN doc THEN doc[f] ELSE AgentStateDefaults[f]
    IN [chat_list |-> field("chat_list"),
        context_list |-> field("context_list"),
        card_dict |-> deserialize_card_dict(field("card_dict")),
        latest_card_id |-> field("latest_card_id"),
        is_running |-> field("is_running"),
        is_interrupted |-> field("is_interrupted"),
        final_result_generated |-> field("final_result_generated"),
        final_result_card_id |-> field("final_result_card_id"),
        raw_info_tool_calls_since_last_note |-> field("raw_info_tool_calls_since_last_note"),
        note_calls_since_last_summary |-> field("note_calls_since_last_summary")]

\* ProjectManager.get_project on a project that is not cached: while no turn
\* loop is active the session is loaded from the document last persisted
get_project_from_db ==
    /\ \A r \in RunIds : run[r].pc \notin ActivePcs /\ task[r].pc = "none"
    /\ \E r \in RunIds : run[r].pc # "idle"
    /\ LET state == rehydrate_agent_state(serialize_agent_state_for_db)
       IN /\ chat_list' = state.chat_list
          /\ context_list' = state.context_list
          /\ card_dict' = state.card_dict
          /\ latest_card_id' = state.latest_card_id
          /\ is_running' = state.is_running
          /\ is_interrupted' = state.is_interrupted
          /\ final_result_generated' = state.final_result_generated
          /\ final_result_card_id' = state.final_result_card_id
          /\ raw_info_tool_calls_since_last_note' = state.raw_info_tool_calls_since_last_note
          /\ note_calls_since_last_summary' = state.note_calls_since_last_summary
    /\ UNCHANGED <<run, task, llm>>
    /\ UNCHANGED traceVars

\* SpecPersist: one turn loop at a time with follow-up runs; between runs the
\* session may be reloaded from its persisted document
NextPersist ==
    \/ f2b_start_research
    \/ get_project_from_db
    \/ \E r \in RunIds : f2b_send_message_when_idle(r)
    \/ \E r \in RunIds : llm_response(r, PolicyCalls, MaxToolCalls)
    \/ \E r \in RunIds : AgentStep(r)

SpecPersist == Init /\ [][NextPersist]_vars

\* SpecView: _prepare_messages_for_llm applied to a history.  The histories
\* are a user entry followed by up to MaxViewResults rounds of an assistant
\* entry and the result of the action it requested.
ToolEntry(id, name, result, summary) ==
    ContextEntry("tool", name, id, result.full, result.compact, summary, <<>>)

ViewResults(id) ==
    {ToolEntry(id, "search_web", SavedResult(id + 1), FALSE),
     ToolEntry(id, "scrape_webpage", SavedResult(id + 1), FALSE),
     ToolEntry(id, "create_note", SavedResult(id + 1), FALSE),
     ToolEntry(id, "create_note", SavedResult(id + 1), TRUE),
     ToolEntry(id, "create_note", InterruptedResult, TRUE),
     ToolEntry(id, "create_note",
               ErrorResult("Error: create_note calls without creating a progress summary note"),
               FALSE),
     ToolEntry(id, "finish_turn", FinishedResult, FALSE),
     ToolEntry(id, "bogus_tool", ErrorResult("Unknown tool"), FALSE)}

RECURSIVE Histories(_)
Histories(n) ==
    IF n = 0 THEN {<<UserEntry>>}
    ELSE {h \o <<AssistantEntry(<<n>>), e>> : h \in Histories(n - 1), e \in ViewResults(n)}

InitView ==
    /\ context_list \in UNION {Histories(n) : n \in 0..MaxViewResults}
    /\ card_dict = <<>>
    /\ latest_card_id = 0
    /\ chat_list = <<>>
    /\ is_running = TRUE
    /\ is_interrupted = FALSE
    /\ final_result_generated = FALSE
    /\ final_result_card_id = 0
    /\ raw_info_tool_calls_since_last_note = 0
    /\ note_calls_since_last_summary = 0
    /\ run = [r \in RunIds |-> IF r = 1 THEN [IdleRun EXCEPT !.pc = "turn"] ELSE IdleRun]
    /\ task = [r \in RunIds |-> NoTask]
    /\ llm = [turns |-> 0, calls |-> 0, messages |-> <<>>]
    /\ trace = NoTrace
    /\ query = NoQuery
    /\ validation = NoValidation
    /\ highlight = NoHighlight

NextView == turn_start(1)

SpecView == InitView /\ [][NextView]_vars

\* ------------------------------------------------------------------------
\* Tracing queries (InfoTraceAgent._extract_support_from_source_card and
\* InfoTraceAgent._find_support_in_card)
\* ------------------------------------------------------------------------
\* the default of the max_retries parameter of both queries
max_retries == 3

\* texts to match shorter than this are not handed to the fuzzy matcher
min_fuzzy_length == 5

\* the fragment the operator asks to trace
traced_content == "fragment"

SnippetLists == {<<>>, <<"a", "b">>}

ListValues ==
    {ListValue("absent", <<>>, FALSE), ListValue("null", <<>>, FALSE),
     ListValue("int", <<>>, FALSE), ListValue("str", <<>>, FALSE),
     ListValue("str", <<"a", "b">>, TRUE)}
        \cup {ListValue("list", l, FALSE) : l \in SnippetLists}

\* the name in ROOT_CONTENT_EXTRACTION_TOOL and in SUPPORT_FINDING_TOOL
ToolNameOf(kind) ==
    IF kind = "extract" THEN "report_extraction_result"
    ELSE "report_support_finding_result"

\* the responses of the generation service: no tool call, another tool, the
\* right tool with arguments that do not parse, that parse to something else
\* than an object, or that parse to an object
Responses(kind) ==
    {NoResponse,
     Response(TRUE, "other_tool", "object", TRUE, ListValue("list", <<"a">>, FALSE)),
     Response(TRUE, ToolNameOf(kind), "invalid", FALSE, ListValue("absent", <<>>, FALSE)),
     Response(TRUE, ToolNameOf(kind), "array", FALSE, ListValue("absent", <<>>, FALSE))}
        \cup {Response(TRUE, ToolNameOf(kind), "object", h, l) :
                 h \in (IF kind = "extract" THEN {FALSE} ELSE BOOLEAN), l \in ListValues}

Message(role, content) == [role |-> role, content |-> content]

\* the three messages a query starts with
InitialMessages(kind) ==
    <<Message("system", IF kind = "extract" THEN "ROOT_CONTENT_EXTRACTION_SYSTEM_PROMPT"
                        ELSE "SUPPORT_FINDING_SYSTEM_PROMPT"),
      Message("user", "content to trace"),
      Message("user", "card content")>>

\* InfoTraceAgent._ensure_list: (list, None) or (None, error)
ensure_list(value) ==
    IF value.type = "list" THEN [list |-> Some(value.value), error |-> ""]
    ELSE IF value.type = "str"
    THEN IF value.repairable
         THEN [list |-> Some(value.value), error |-> ""]
         ELSE [list |-> None, error |-> "is not valid JSON and could not be recovered"]
    ELSE [list |-> None, error |-> "must be list"]

Retry(assistant, role, error) ==
    [verdict |-> "retry",
     feedback |-> <<Message("assistant", assistant), Message(role, error)>>,
     result |-> QueryResult(FALSE, None)]

Return(result) == [verdict |-> "return", feedback |-> <<>>, result |-> result]

\* the body of the retry loop after the generation call: checks 1 to 4 and
\* the return.  verdict is "retry" (continue, feedback is appended to the
\* conversation), "return" or "raise" (an exception leaves the query).
check_response(kind, response) ==
    IF ~response.tool_calls
    THEN Retry("content", "user", "ERROR: No tool call in response. Please call the tool.")
    ELSE IF response.name # ToolNameOf(kind)
    THEN Retry("tool_calls", "tool", "ERROR: Wrong tool")
    ELSE IF response.json = "invalid"
    THEN Retry("tool_calls", "tool", "ERROR: Invalid JSON in arguments")
    ELSE IF response.json # "object"
    THEN [verdict |-> "raise", feedback |-> <<>>,
          result |-> QueryResult(FALSE, None)]          \* result.get: AttributeError
    ELSE IF kind = "extract"
    THEN LET raw_list == IF response.list.type = "absent"
                         THEN ListValue("list", <<>>, FALSE) ELSE response.list
             parsed == ensure_list(raw_list)
         IN IF parsed.error # ""
            THEN Retry("tool_calls", "tool", parsed.error)
            ELSE Return(QueryResult(FALSE, IF Truthy(parsed.list) THEN parsed.list
                                           ELSE Some(<<traced_content>>)))
    ELSE IF response.list.type \in {"absent", "null"}
    THEN Return(QueryResult(response.has_support, None))
    ELSE LET parsed == ensure_list(response.list)
         IN IF parsed.error # ""
            THEN Retry("tool_calls", "tool", parsed.error)
            ELSE Return(QueryResult(response.has_support, parsed.list))

\* a query is called: its conversation is built
query_begin(kind) ==
    /\ query.outcome # "pending"
    /\ query' = [NoQuery EXCEPT !.kind = kind, !.outcome = "pending",
                                !.messages = InitialMessages(kind)]
    /\ UNCHANGED <<agentVars, run, task, llm, trace, highlight, validation>>

\* one pass of "for attempt in range(max_retries)": the generation call and
\* the checks on its response; RuntimeError after the last pass
query_attempt(response) ==
    /\ query.outcome = "pending"
    /\ query.attempt < max_retries
    /\ LET checked == check_response(query.kind, response)
       IN query' = [query EXCEPT
                       !.attempt = @ + 1,
                       !.response = response,
                       !.messages = @ \o checked.feedback,
                       !.result = checked.result,
                       !.outcome = CASE checked.verdict = "return" -> "returned"
                                     [] checked.verdict = "raise" -> "raised"
                                     [] OTHER -> IF query.attempt + 1 = max_retries
                                                 THEN "raised" ELSE "pending"]
    /\ UNCHANGED <<agentVars, run, task, llm, trace, highlight, validation>>

\* SpecQuery: tracing queries, one after the other
NextQuery ==
    \/ \E kind \in {"extract", "support"} : query_begin(kind)
    \/ \E response \in Responses(query.kind) : query_attempt(response)

SpecQuery == Init /\ [][NextQuery]_vars

\* what a query gives its caller: a result, or an exception
QueryOutcome(raised, result) == [raised |-> raised, result |-> result]

\* the responses the walk is given: support with snippets, support with an
\* empty list, no support with null, no support with snippets
WalkResponses(kind) ==
    {response \in Responses(kind) :
        /\ check_response(kind, response).verdict = "return"
        /\ \/ kind = "extract"
           \/ <<response.has_support, response.list.type, response.list.value>>
                 \in {<<TRUE, "list", <<"a", "b">>>>, <<TRUE, "list", <<>>>>,
                      <<FALSE, "null", <<>>>>, <<FALSE, "list", <<"a", "b">>>>}}

\* the outcomes of a query of the walk: RuntimeError after max_retries
\* responses that are retried, or the result of a response that is returned
QueryOutcomes(kind) ==
    {QueryOutcome(TRUE, QueryResult(FALSE, None))}
        \cup {QueryOutcome(FALSE, check_response(kind, response).result) :
                 response \in WalkResponses(kind)}

\* ------------------------------------------------------------------------
\* Citation tracing (InfoTraceAgent.trace_source)
\* ------------------------------------------------------------------------
\* the card types InfoTraceAgent._get_card_main_content knows
traceable_card_types == {"web_search_result", "webpage", "note"}

\* "\n\n".join(list)
RECURSIVE Join(_)
Join(list) ==
    IF Len(list) <= 1 THEN list ELSE <<list[1], "\n\n">> \o Join(Tail(list))

\* InfoTraceAgent._get_card_main_content raises on a card of another type
\* and on a card without content
main_content_raises(card_id) ==
    \/ card_dict[card_id].card_type \notin traceable_card_types
    \/ ~card_dict[card_id].filled

\* InfoTraceAgent._apply_highlight_to_content on the card's main content
apply_highlight_to_content(card_id, support_content_list) ==
    [i \in 1..Len(support_content_list) |->
        <<"<highlight>", support_content_list[i], "</highlight>">>]

\* "null_node.children = None" forgotten
null_node_default_children(card_id) == TraceResultNode(card_id, None, None)

\* the node of a predecessor that gave no support
null_node(card_id) ==
    [TraceResultNode(card_id, None, None) EXCEPT !.children = None]

\* a null node for the first predecessor only
null_nodes_first_only(explicit_refs) == <<null_node(explicit_refs[1])>>

\* "for ref_card_id in explicit_refs: null_nodes.append(null_node)"
null_nodes(explicit_refs) ==
    [k \in 1..Len(explicit_refs) |-> null_node(explicit_refs[k])]

\* the locals of one _trace_node_recursive call and the agent's flag
leaf_children_null == None

\* _trace_node_recursive on a card without explicit references:
\* "node.children = []"
leaf_children == Some(<<>>)

WalkState(found_any_support, supporting_nodes, trace_failed, raised, log, answers) ==
    [found_any_support |-> found_any_support, supporting_nodes |-> supporting_nodes,
     trace_failed |-> trace_failed, raised |-> raised, log |-> log, answers |-> answers]

LogEntry(claim_content, predecessor_card_id, answer) ==
    [claim_content |-> claim_content, predecessor_card_id |-> predecessor_card_id,
     answer |-> answer]

\* "node.children = supporting_nodes" with a null node for every predecessor
\* appended to the supporting ones
walk_children_mixed(found_any_support, supporting_nodes, explicit_refs) ==
    IF found_any_support THEN Some(supporting_nodes \o null_nodes(explicit_refs))
    ELSE Some(null_nodes(explicit_refs))

\* _trace_node_recursive after its loop: "if found_any_support:
\* node.children = supporting_nodes" and "else: ... node.children = null_nodes"
walk_children(found_any_support, supporting_nodes, explicit_refs) ==
    IF found_any_support THEN Some(supporting_nodes)
    ELSE Some(null_nodes(explicit_refs))

\* InfoTraceAgent._trace_node_recursive.  The answers of the generation
\* service are inputs, so the operators give the set of the outcomes: the
\* node as the call leaves it, the flag, whether an exception left the call.
RECURSIVE trace_node_recursive(_, _, _, _)
RECURSIVE trace_predecessors(_, _, _, _)
\* "for ref_card_id in explicit_refs", from its i-th pass on
trace_predecessors(explicit_refs, i, content_to_trace, st) ==
    IF st.raised \/ i > Len(explicit_refs) THEN {st}
    ELSE UNION {
        LET logged == [st EXCEPT !.log = Append(@, LogEntry(content_to_trace,
                                                             explicit_refs[i], answer)),
                                 !.answers = Append(@, answer)]
        IN IF answer.raised THEN {[logged EXCEPT !.raised = TRUE]}
           ELSE IF answer.result.has_support /\ Truthy(answer.result.list)
           THEN IF main_content_raises(explicit_refs[i])
                THEN {[logged EXCEPT !.raised = TRUE, !.found_any_support = TRUE]}
                ELSE LET support_content_list == answer.result.list.value
                         child_node ==
                             TraceResultNode(explicit_refs[i], Some(support_content_list),
                                             Some(apply_highlight_to_content(
                                                      explicit_refs[i], support_content_list)))
                     IN UNION {trace_predecessors(
                                   explicit_refs, i + 1, content_to_trace,
                                   WalkState(TRUE, Append(st.supporting_nodes, sub.node),
                                             sub.trace_failed, sub.raised, sub.log,
                                             logged.answers)) :
                               sub \in trace_node_recursive(child_node,
                                                            Join(support_content_list),
                                                            logged.trace_failed, logged.log)}
           ELSE trace_predecessors(explicit_refs, i + 1, content_to_trace, logged)
        : answer \in QueryOutcomes("support")}

trace_node_recursive(node, content_to_trace, trace_failed, log) ==
    LET explicit_refs == card_dict[node.card_id].card_ref_explicit
        entered == [node EXCEPT !.content_to_trace = content_to_trace]
    IN IF explicit_refs = <<>>
       THEN {[node |-> [entered EXCEPT !.children = leaf_children],
              trace_failed |-> trace_failed, raised |-> FALSE, log |-> log]}
       ELSE {IF st.raised
             THEN [node |-> entered, trace_failed |-> st.trace_failed, raised |-> TRUE,
                   log |-> st.log]
             ELSE IF st.found_any_support
             THEN [node |-> [entered EXCEPT !.children =
                                walk_children(TRUE, st.supporting_nodes, explicit_refs),
                                            !.answers = st.answers],
                   trace_failed |-> st.trace_failed, raised |-> FALSE, log |-> st.log]
             ELSE [node |-> [entered EXCEPT !.children =
                                walk_children(FALSE, st.supporting_nodes, explicit_refs),
                                            !.answers = st.answers],
                   trace_failed |-> TRUE, raised |-> FALSE, log |-> st.log] :
             st \in trace_predecessors(explicit_refs, 1, content_to_trace,
                                       WalkState(FALSE, <<>>, trace_failed, FALSE, log,
                                                 <<>>))}

\* "self.trace_failed = False" forgotten
reset_trace_failed_kept(flag) == flag

\* trace_source: "self.trace_failed = False"
reset_trace_failed(flag) == FALSE

Raised(trace_failed, log) ==
    [trace EXCEPT !.trace_failed = trace_failed, !.outcome = "raised",
                  !.find_support_log = log]

\* InfoTraceAgent.trace_source(card_id, content_to_trace) up to its first
\* generation call
trace_source(card_id) ==
    /\ card_id \in DOMAIN card_dict
    /\ trace.outcome # "running"
    /\ trace' = [NoTrace EXCEPT !.trace_failed = reset_trace_failed(trace.trace_failed),
                                !.outcome = "running",
                                !.card_id = card_id,
                                !.entered_with = trace.trace_failed]
    /\ UNCHANGED <<agentVars, run, task, llm, query, highlight, validation>>

\* trace_source from the answer of the root extraction to its return
trace_source_walk ==
    /\ trace.outcome = "running"
    /\ \E extraction \in QueryOutcomes("extract") :
         IF extraction.raised \/ main_content_raises(trace.card_id)
         THEN trace' = Raised(trace.trace_failed, <<>>)
         ELSE LET extracted_content_list == extraction.result.list.value
                  root_node ==
                      TraceResultNode(trace.card_id, Some(extracted_content_list),
                                      Some(apply_highlight_to_content(
                                               trace.card_id, extracted_content_list)))
              IN \E walk \in trace_node_recursive(root_node, Join(extracted_content_list),
                                                  trace.trace_failed, <<>>) :
                    trace' = IF walk.raised
                             THEN Raised(walk.trace_failed, walk.log)
                             ELSE [trace EXCEPT
                                      !.trace_failed = walk.trace_failed,
                                      !.outcome = "returned",
                                      !.status = IF walk.trace_failed THEN "Failed"
                                                 ELSE "Success",
                                      !.trace_result_tree = Some(<<walk.node>>),
                                      !.find_support_log = walk.log]
    /\ UNCHANGED <<agentVars, run, task, llm, query, highlight, validation>>

\* SpecTrace: trace_source on the store of a session.  The sessions have
\* made one request per turn, a search or a note on one or two of the
\* preceding cards, and await the next response of the generation service.
TraceRefLists(k) ==
    {<<>>, <<k - 1>>} \cup (IF k >= 3 THEN {<<k - 1, k - 2>>, <<k - 2, k - 1>>} ELSE {})

TraceCalls(k) == {SearchCall} \cup {NoteCall(ids, FALSE, FALSE) : ids \in TraceRefLists(k)}

RECURSIVE TraceSessions(_)
TraceSessions(n) ==
    IF n = 1
    THEN {[cards |-> PutCard(<<>>, 1, Card("user_requirement", "completed", <<>>, <<>>,
                                            TRUE, 0)),
           context |-> <<SystemEntry, UserEntry>>,
           chat |-> <<ProgressSummaryMessage("Start", "in_progress"),
                      ChatEntry("user_message", "", "", 1)>>,
           raw |-> 0, notes |-> 0]}
    ELSE {[cards |-> PutCard(s.cards, n,
                             Card(CardTypeOf(call.name), "completed", ImplicitRef(n - 1),
                                  call.input_info_card_ids, TRUE, n - 1)),
           context |-> add_tool_result(Append(s.context, AssistantEntry(<<n - 1>>)),
                                       n - 1, call.name, SavedResult(n), FALSE),
           chat |-> Append(s.chat, ToolMessage("completed", n)),
           raw |-> UpdatedRawCounter(call, s.raw),
           notes |-> UpdatedNoteCounter(call, s.notes)] :
          <<s, call>> \in {p \in TraceSessions(n - 1) \X TraceCalls(n) :
                               check_note_creation_enforcement(p[2], p[1].raw,
                                                               p[1].notes) = ""}}

InitTrace ==
    \E n \in 1..MaxTraceCards : \E s \in TraceSessions(n) :
        /\ card_dict = s.cards
        /\ latest_card_id = n
        /\ context_list = s.context
        /\ chat_list = s.chat
        /\ is_running = TRUE
        /\ is_interrupted = FALSE
        /\ final_result_generated = FALSE
        /\ final_result_card_id = 0
        /\ raw_info_tool_calls_since_last_note = s.raw
        /\ note_calls_since_last_summary = s.notes
        /\ run = [r \in RunIds |-> IF r = 1 THEN [IdleRun EXCEPT !.pc = "generating"]
                                   ELSE IdleRun]
        /\ task = [r \in RunIds |-> NoTask]
        /\ llm = [turns |-> n - 1, calls |-> n - 1,
                  messages |-> prepare_messages_for_llm(s.context)]
        /\ trace = NoTrace
        /\ query = NoQuery
        /\ validation = NoValidation
        /\ highlight = NoHighlight

NextTrace ==
    \/ \E card_id \in 1..MaxTraceCards : trace_source(card_id)
    \/ trace_source_walk

SpecTrace == InitTrace /\ [][NextTrace]_vars

\* ------------------------------------------------------------------------
\* Highlighting (infoTraceAgent.py): strings are sequences of characters,
\* offsets count from 0 as in the code
\* ------------------------------------------------------------------------
\* text[i:j] for 0 <= i <= j <= len(text)
Slice(text, i, j) == SubSeq(text, i + 1, j)

\* target in source
IsSubstring(target, source) ==
    \E i \in 0..(Len(source) - Len(target)) : Slice(source, i, i + Len(target)) = target

\* source.find(target): the first offset, -1 if there is none
find(source, target) ==
    IF IsSubstring(target, source)
    THEN CHOOSE i \in 0..(Len(source) - Len(target)) :
            /\ Slice(source, i, i + Len(target)) = target
            /\ \A k \in 0..(i - 1) : Slice(source, k, k + Len(target)) # target
    ELSE -1

NoAlignment == [found |-> FALSE, dest_start |-> 0, dest_end |-> 0]

\* rapidfuzz.fuzz.partial_ratio_alignment(s1, s2, score_cutoff=50): the
\* library is not available (ImportError) or finds no alignment above the
\* cutoff, or it returns an alignment whose dest_start <= dest_end are
\* offsets of s2
partial_ratio_alignment(s1, s2) ==
    {NoAlignment}
    \cup {[found |-> TRUE, dest_start |-> p[1], dest_end |-> p[2]] :
            p \in {q \in (0..Len(s2)) \X (0..Len(s2)) : q[1] <= q[2]}}

fuzzy_match_in_source_no_fast_path(text_to_match, source_text, alignment) ==
    IF Len(text_to_match) < min_fuzzy_length THEN text_to_match
    ELSE IF ~alignment.found THEN text_to_match
    ELSE LET matched_text == Slice(source_text, alignment.dest_start, alignment.dest_end)
         IN IF matched_text # <<>> THEN matched_text ELSE text_to_match

\* _fuzzy_match_in_source, alignment being what the library gives when asked
fuzzy_match_in_source(text_to_match, source_text, alignment) ==
    IF IsSubstring(text_to_match, source_text) THEN text_to_match
    ELSE IF Len(text_to_match) < min_fuzzy_length THEN text_to_match
    ELSE IF ~alignment.found THEN text_to_match
    ELSE LET matched_text == Slice(source_text, alignment.dest_start, alignment.dest_end)
         IN IF matched_text # <<>> THEN matched_text ELSE text_to_match

\* one call of _fuzzy_match_in_source
fuzzy_match ==
    /\ highlight.op = "fuzzy"
    /\ ~highlight.done
    /\ \E alignment \in partial_ratio_alignment(highlight.snippets[1], highlight.text) :
          highlight' = [highlight EXCEPT
                           !.result = fuzzy_match_in_source(highlight.snippets[1],
                                                            highlight.text, alignment),
                           !.done = TRUE]
    /\ UNCHANGED <<agentVars, run, task, llm, trace, query, validation>>

\* SpecFuzzy: _fuzzy_match_in_source on every source text of up to
\* MaxSourceLen characters and every text to match of up to MaxTargetLen
\* characters over FuzzyChars
FuzzyChars == {"a", "b"}

InitFuzzy ==
    /\ card_dict = <<>>
    /\ latest_card_id = 0
    /\ context_list = <<>>
    /\ chat_list = <<>>
    /\ is_running = FALSE
    /\ is_interrupted = FALSE
    /\ final_result_generated = FALSE
    /\ final_result_card_id = 0
    /\ raw_info_tool_calls_since_last_note = 0
    /\ note_calls_since_last_summary = 0
    /\ run = [r \in RunIds |-> IdleRun]
    /\ task = [r \in RunIds |-> NoTask]
    /\ llm = [turns |-> 0, calls |-> 0, messages |-> <<>>]
    /\ trace = NoTrace
    /\ query = NoQuery
    /\ validation = NoValidation
    /\ \E source \in SeqsUpTo(FuzzyChars, MaxSourceLen) :
       \E target \in SeqsUpTo(FuzzyChars, MaxTargetLen) :
          highlight = [NoHighlight EXCEPT !.op = "fuzzy", !.text = source,
                                          !.snippets = <<target>>]

NextFuzzy == fuzzy_match

SpecFuzzy == InitFuzzy /\ [][NextFuzzy]_vars

\* characters str.strip removes
Whitespace == {" ", "\n"}

\* the length of the match of the pattern (\||(?:^|\n)- ) that starts at
\* position p of text (positions from 1), 0 if there is none
separator_at(text, p) ==
    IF text[p] = "|" THEN 1
    ELSE IF p = 1 /\ Len(text) >= 2 /\ text[1] = "-" /\ text[2] = " " THEN 2
    ELSE IF p + 2 <= Len(text) /\ text[p] = "\n" /\ text[p + 1] = "-" /\ text[p + 2] = " "
         THEN 3
    ELSE 0

\* re.search(separator_pattern, text)
has_separator(text) == \E p \in 1..Len(text) : separator_at(text, p) > 0

\* re.split(separator_pattern, text) from position p on, current being the
\* part collected since the last separator: parts and separators alternate
RECURSIVE re_split(_, _, _)
re_split(text, p, current) ==
    IF p > Len(text) THEN <<current>>
    ELSE LET n == separator_at(text, p)
         IN IF n > 0
            THEN <<current, SubSeq(text, p, p + n - 1)>> \o re_split(text, p + n, <<>>)
            ELSE re_split(text, p + 1, Append(current, text[p]))

\* re.match(separator_pattern, part)
starts_with_separator(part) == part # <<>> /\ separator_at(part, 1) > 0

\* len(part) - len(part.lstrip()) and len(part) - len(part.rstrip())
leading_ws(part) ==
    CHOOSE n \in 0..Len(part) :
        /\ \A i \in 1..n : part[i] \in Whitespace
        /\ n = Len(part) \/ part[n + 1] \notin Whitespace

trailing_ws(part) ==
    CHOOSE n \in 0..Len(part) :
        /\ \A i \in (Len(part) - n + 1)..Len(part) : part[i] \in Whitespace
        /\ n = Len(part) \/ part[Len(part) - n] \notin Whitespace

\* the loop body wrapping "part.strip()" without the whitespace around it
highlight_part_stripped(part) ==
    IF starts_with_separator(part) THEN part
    ELSE IF leading_ws(part) = Len(part) THEN part
    ELSE <<"<highlight>">>
         \o SubSeq(part, leading_ws(part) + 1, Len(part) - trailing_ws(part))
         \o <<"</highlight>">>

\* the loop body of _apply_highlight_with_separator_handling
highlight_part(part) ==
    IF starts_with_separator(part) THEN part
    ELSE IF leading_ws(part) = Len(part) THEN part
    ELSE SubSeq(part, 1, leading_ws(part))
         \o <<"<highlight>">>
         \o SubSeq(part, leading_ws(part) + 1, Len(part) - trailing_ws(part))
         \o <<"</highlight>">>
         \o SubSeq(part, Len(part) - trailing_ws(part) + 1, Len(part))

RECURSIVE JoinParts(_)
JoinParts(parts) ==
    IF parts = <<>> THEN <<>> ELSE highlight_part(Head(parts)) \o JoinParts(Tail(parts))

\* _apply_highlight_with_separator_handling
apply_highlight_with_separator_handling(text) ==
    IF ~has_separator(text)
    THEN <<"<highlight>">> \o text \o <<"</highlight>">>
    ELSE JoinParts(re_split(text, 1, <<>>))

\* _apply_highlight_to_string step 1: the ranges of the snippets from
\* position k on, alignments[k] being what the library gives for snippet k
RECURSIVE collect_ranges(_, _, _, _)
collect_ranges(text, support_content_list, alignments, k) ==
    IF k > Len(support_content_list) THEN <<>>
    ELSE LET matched_text == fuzzy_match_in_source(support_content_list[k], text,
                                                   alignments[k])
             start == find(text, matched_text)
             rest == collect_ranges(text, support_content_list, alignments, k + 1)
         IN IF matched_text # <<>> /\ start # -1
            THEN <<<<start, start + Len(matched_text)>>>> \o rest
            ELSE rest

\* the order of tuples
RangeLeq(a, b) == a[1] < b[1] \/ (a[1] = b[1] /\ a[2] <= b[2])

\* ranges.sort()
RECURSIVE sort_ranges(_)
sort_ranges(ranges) ==
    IF ranges = <<>> THEN <<>>
    ELSE LET head == Head(ranges)
             rest == sort_ranges(Tail(ranges))
             before == SelectSeq(rest, LAMBDA r : ~RangeLeq(head, r))
             after == SelectSeq(rest, LAMBDA r : RangeLeq(head, r))
         IN before \o <<head>> \o after

merge_step_overlap_only(merged, range) ==
    LET last == merged[Len(merged)]
    IN IF range[1] < last[2]
       THEN [merged EXCEPT ![Len(merged)] =
                <<last[1], IF last[2] >= range[2] THEN last[2] ELSE range[2]>>]
       ELSE Append(merged, range)

\* step 2, the loop body: the range is merged into the last merged range if
\* it starts at or before its end
merge_step(merged, range) ==
    LET last == merged[Len(merged)]
    IN IF range[1] <= last[2]
       THEN [merged EXCEPT ![Len(merged)] =
                <<last[1], IF last[2] >= range[2] THEN last[2] ELSE range[2]>>]
       ELSE Append(merged, range)

\* step 2 on sorted ranges from position k on
RECURSIVE merge_ranges(_, _, _)
merge_ranges(ranges, k, merged) ==
    IF k > Len(ranges) THEN merged
    ELSE merge_ranges(ranges, k + 1, merge_step(merged, ranges[k]))

\* step 3: the merged ranges k, k - 1, ..., 1 are replaced in result
RECURSIVE apply_highlights(_, _, _)
apply_highlights(result, merged, k) ==
    IF k = 0 THEN result
    ELSE LET start == merged[k][1]
             end == merged[k][2]
             highlighted == apply_highlight_with_separator_handling(Slice(result, start, end))
         IN apply_highlights(Slice(result, 0, start) \o highlighted
                                \o Slice(result, end, Len(result)),
                             merged, k - 1)

\* the snippet is handed to the library
reaches_library(snippet, text) ==
    ~IsSubstring(snippet, text) /\ Len(snippet) >= min_fuzzy_length

\* what the library gives for the snippets from position k on, one outcome
\* for each snippet; a snippet that is not handed to it has no alignment
RECURSIVE library_outcomes(_, _, _)
library_outcomes(text, snippets, k) ==
    IF k > Len(snippets) THEN {<<>>}
    ELSE {<<alignment>> \o rest :
            alignment \in IF reaches_library(snippets[k], text)
                          THEN partial_ratio_alignment(snippets[k], text)
                          ELSE {NoAlignment},
            rest \in library_outcomes(text, snippets, k + 1)}

\* one call of _apply_highlight_to_string
apply_highlight_to_string ==
    /\ highlight.op = "apply"
    /\ ~highlight.done
    /\ LET text == highlight.text
           snippets == highlight.snippets
       IN \E alignments \in library_outcomes(text, snippets, 1) :
             /\ LET ranges == collect_ranges(text, snippets, alignments, 1)
                    sorted == sort_ranges(ranges)
                    merged == IF ranges = <<>> THEN <<>>
                              ELSE merge_ranges(sorted, 2, <<sorted[1]>>)
                IN highlight' = [highlight EXCEPT
                                    !.ranges = ranges,
                                    !.merged = merged,
                                    !.result = IF ranges = <<>> THEN text
                                               ELSE apply_highlights(text, merged,
                                                                     Len(merged)),
                                    !.done = TRUE]
    /\ UNCHANGED <<agentVars, run, task, llm, trace, query, validation>>

\* SpecHighlight: _apply_highlight_to_string with up to MaxSnippets snippets
\* on every text of up to MaxTextLen characters over HighlightChars, each
\* snippet a slice of the text or a text that does not occur in it, and on
\* the sample texts, each snippet a slice between two of SampleOffsets
HighlightChars == {"a", "|"}

SampleTexts ==
    {<<"a", "b", "c", "d", "e", "f", "g", "h">>,
     <<"-", " ", "a", " ", "\n", "-", " ", "b">>}

ForeignSnippets == {<<"z">>, <<"z", "z", "z", "z", "z">>}

SampleOffsets == {0, 3, 5, 8}

SampleSnippetsOf(text) == {Slice(text, i, j) : i \in SampleOffsets, j \in SampleOffsets}

SnippetsOf(text) ==
    {Slice(text, i, j) : i \in 0..Len(text), j \in 0..Len(text)} \cup ForeignSnippets

InitHighlight ==
    /\ card_dict = <<>>
    /\ latest_card_id = 0
    /\ context_list = <<>>
    /\ chat_list = <<>>
    /\ is_running = FALSE
    /\ is_interrupted = FALSE
    /\ final_result_generated = FALSE
    /\ final_result_card_id = 0
    /\ raw_info_tool_calls_since_last_note = 0
    /\ note_calls_since_last_summary = 0
    /\ run = [r \in RunIds |-> IdleRun]
    /\ task = [r \in RunIds |-> NoTask]
    /\ llm = [turns |-> 0, calls |-> 0, messages |-> <<>>]
    /\ trace = NoTrace
    /\ query = NoQuery
    /\ validation = NoValidation
    /\ \E text \in SeqsUpTo(HighlightChars, MaxTextLen) \cup SampleTexts :
       \E snippets \in SeqsUpTo(IF text \in SampleTexts THEN SampleSnippetsOf(text)
                                 ELSE SnippetsOf(text), MaxSnippets) :
          highlight = [NoHighlight EXCEPT !.op = "apply", !.text = text,
                                          !.snippets = snippets]

NextHighlight == apply_highlight_to_string

SpecHighlight == InitHighlight /\ [][NextHighlight]_vars

\* ------------------------------------------------------------------------
\* BaseAgent._validate_tool_arguments on any schema
\* ------------------------------------------------------------------------
\* one call of _validate_tool_arguments
validate_tool_arguments_call ==
    /\ ~validation.done
    /\ validation' = [validation EXCEPT
                         !.result = validate_arguments(validation.schema.found,
                                                       validation.schema.required,
                                                       validation.schema.properties,
                                                       validation.provided),
                         !.done = TRUE]
    /\ UNCHANGED <<agentVars, run, task, llm, trace, query, highlight>>

\* SpecValidate: _validate_tool_arguments on every schema and every set of
\* provided names over ArgNames
ArgNames == 1..MaxArgNames

InitValidate ==
    /\ card_dict = <<>>
    /\ latest_card_id = 0
    /\ context_list = <<>>
    /\ chat_list = <<>>
    /\ is_running = FALSE
    /\ is_interrupted = FALSE
    /\ final_result_generated = FALSE
    /\ final_result_card_id = 0
    /\ raw_info_tool_calls_since_last_note = 0
    /\ note_calls_since_last_summary = 0
    /\ run = [r \in RunIds |-> IdleRun]
    /\ task = [r \in RunIds |-> NoTask]
    /\ llm = [turns |-> 0, calls |-> 0, messages |-> <<>>]
    /\ trace = NoTrace
    /\ query = NoQuery
    /\ highlight = NoHighlight
    /\ \E found \in BOOLEAN, required \in SUBSET ArgNames, properties \in SUBSET ArgNames,
          provided \in SUBSET ArgNames :
          validation = [NoValidation EXCEPT !.schema = Schema(found, required, properties),
                                            !.provided = provided]

NextValidate == validate_tool_arguments_call

SpecValidate == InitValidate /\ [][NextValidate]_vars

\* ------------------------------------------------------------------------
\* Properties
\* ------------------------------------------------------------------------
ToolEntries == SelectSeq(context_list, IsToolEntry)

Text(entry) == entry.content[1]

\* the result of an action that ran to its end and saved a card
Executed(entry) == Text(entry) = "saved in InfoCard, full result shown"

IsRaw(entry) == entry.name \in {"search_web", "scrape_webpage"}

IsNote(entry) == entry.name = "create_note"

RawPolicyError(entry) ==
    Text(entry) = "Error: raw information collection tool calls without creating a note"

NotePolicyError(entry) ==
    Text(entry) = "Error: create_note calls without creating a progress summary note"

CardsCreatedBy(id) == {k \in DOMAIN card_dict : card_dict[k].creator = id}

NoActionInFlight == \A r \in RunIds : task[r].pc = "none"

NoTurnLoopActive == \A r \in RunIds : run[r].pc \notin ActivePcs

\* C1: whenever no turn loop is active and no action is in flight, every
\* explicit predecessor of a stored artifact names a stored artifact other
\* than itself that was created before it, so the explicit-predecessor graph
\* is acyclic.
ExplicitPredecessorsCreatedBefore ==
    (NoTurnLoopActive /\ NoActionInFlight) =>
        \A c \in DOMAIN card_dict :
            \A i \in 1..Len(card_dict[c].card_ref_explicit) :
                LET p == card_dict[c].card_ref_explicit[i]
                IN /\ p \in DOMAIN card_dict
                   /\ p # c
                   /\ card_dict[p].creator < card_dict[c].creator

\* C2: an action whose logged result is "Interrupted by user during
\* execution" has left no artifact it created in completed status.
InterruptedLeavesNoCompletedCard ==
    \A i \in 1..Len(context_list) :
        (IsToolEntry(context_list[i]) /\ context_list[i].content = InterruptedResult.full)
        => \A k \in CardsCreatedBy(context_list[i].tool_call_id) :
               card_dict[k].status # "completed"

\* C3: when execute_turn returns from a turn in which the interrupt flag was
\* observed, no artifact is in_progress and no display tool entry is
\* in_progress.
CleanupBeforeTurnReturns ==
    \A r \in RunIds :
        (run[r].pc = "turn_done" /\ run[r].observed)
        => /\ \A k \in DOMAIN card_dict : card_dict[k].status # "in_progress"
           /\ \A i \in 1..Len(chat_list) :
                  ~(chat_list[i].chat_type = "tool_message"
                    /\ chat_list[i].status = "in_progress")

\* C4: at most one turn loop is active on the session at any time.
AtMostOneTurnLoop ==
    Cardinality({r \in RunIds : run[r].pc \in ActivePcs}) <= 1

\* number of executed raw-acquisition results before position i of the
\* results T since the last executed create_note
LastExecutedNoteBefore(T, i) ==
    IF \E j \in 1..(i - 1) : IsNote(T[j]) /\ Executed(T[j])
    THEN SetMax({j \in 1..(i - 1) : IsNote(T[j]) /\ Executed(T[j])})
    ELSE 0

RawSinceNote(T, i) ==
    Cardinality({j \in (LastExecutedNoteBefore(T, i) + 1)..(i - 1) :
                    IsRaw(T[j]) /\ Executed(T[j])})

\* C5: with ceiling 3, a raw-acquisition action is launched while fewer than
\* three were launched since the last executed create_note (or the start),
\* the next one is rejected with the policy error and creates nothing, and
\* the acquisition counter is the number launched since the last executed
\* create_note, hence 0 right after one.
AcquisitionCeiling ==
    LET T == ToolEntries
    IN /\ \A i \in 1..Len(T) :
              IsRaw(T[i]) =>
                  /\ Executed(T[i]) <=> RawSinceNote(T, i) < 3
                  /\ RawPolicyError(T[i]) <=> RawSinceNote(T, i) >= 3
                  /\ RawPolicyError(T[i]) => CardsCreatedBy(T[i].tool_call_id) = {}
       /\ raw_info_tool_calls_since_last_note = RawSinceNote(T, Len(T) + 1)

\* three acquisitions launched, a fourth rejected, a note, an acquisition
AcquisitionCeilingWitness ==
    LET T == ToolEntries
    IN /\ Len(T) >= 6
       /\ \A i \in 1..3 : IsRaw(T[i]) /\ Executed(T[i])
       /\ IsRaw(T[4]) /\ RawPolicyError(T[4])
       /\ IsNote(T[5]) /\ Executed(T[5])
       /\ IsRaw(T[6]) /\ Executed(T[6])
       /\ raw_info_tool_calls_since_last_note = 1

LastEntry(ctx) == ctx[Len(ctx)]

\* C6: a step changes a policy counter only if it logs the result of an
\* action that completed successfully.
CountersChangeOnlyOnSuccess ==
    [][(\/ raw_info_tool_calls_since_last_note' # raw_info_tool_calls_since_last_note
        \/ note_calls_since_last_summary' # note_calls_since_last_summary)
       => /\ Len(context_list') = Len(context_list) + 1
          /\ IsToolEntry(LastEntry(context_list'))
          /\ \/ Executed(LastEntry(context_list'))
             \/ LastEntry(context_list').content = FinishedResult.full]_vars

\* the step takes up a create_note request of turn loop r
NoteRequested(r) ==
    /\ run[r].pc = "exec"
    /\ run[r].idx <= Len(run[r].tool_calls)
    /\ CurrentCall(r).name = "create_note"
    /\ run'[r] # run[r]

\* the step logs the result of a create_note that ran to its end
NoteExecuted(r) ==
    /\ run[r].pc = "monitor"
    /\ task[r].pc = "done"
    /\ CurrentCall(r).name = "create_note"
    /\ run'[r].pc = "exec"

NoteFollows(ctx, i) ==
    \E j \in (i + 1)..Len(ctx) : IsToolEntry(ctx[j]) /\ IsNote(ctx[j])

\* a later create_note result marked as progress summary follows position i
SummaryFollows(ctx, i) ==
    \E j \in (i + 1)..Len(ctx) :
        IsToolEntry(ctx[j]) /\ IsNote(ctx[j]) /\ ctx[j].is_progress_summary_note

\* the view of the current history has been built for a generation request
ViewBuilt == \E r \in RunIds : run[r].pc = "generating"

RenderedFull(i) == llm.messages[i].content = context_list[i].content

RenderedCompact(i) == llm.messages[i].content = context_list[i].compact_content

\* the result has two different renderings
Dual(entry) == entry.content # entry.compact_content

MustBeRejected(call) ==
    \/ call.json # "object"
    \/ call.name \notin available_tool_functions
    \/ ToolSchema(call.name).required \ call.keys # {}
    \/ call.keys \ ToolSchema(call.name).properties # {}
    \/ /\ IsRaw(call)
       /\ raw_info_tool_calls_since_last_note >= 3
    \/ /\ call.name = "create_note"
       /\ ~call.is_progress_summary_note
       /\ note_calls_since_last_summary >= 3

\* C10: the step that takes up a request that must be rejected logs exactly
\* one result entry for it that carries an error message, launches nothing,
\* creates no artifact and raises no exception out of the turn.
RejectionsAreLogged ==
    [][\A r \in RunIds :
          (/\ run[r].pc = "exec"
           /\ run[r].idx <= Len(run[r].tool_calls)
           /\ run'[r] # run[r]
           /\ MustBeRejected(CurrentCall(r)))
          => /\ run'[r].pc = "exec"
             /\ run'[r].idx = run[r].idx + 1
             /\ Len(context_list') = Len(context_list) + 1
             /\ SubSeq(context_list', 1, Len(context_list)) = context_list
             /\ LET e == LastEntry(context_list')
                IN /\ IsToolEntry(e)
                   /\ e.tool_call_id = CurrentCall(r).id
                   /\ e.name = CurrentCall(r).name
                   /\ ~Executed(e)
                   /\ e.content \notin {FinishedResult.full, InterruptedResult.full}
             /\ task' = task
             /\ card_dict' = card_dict]_vars

\* the input ids of the create_note in flight that named no artifact when it
\* was requested
InvalidAtRequest(r) ==
    SelectSeq(CurrentCall(r).input_info_card_ids, LAMBDA k : k \notin task[r].known)

\* C11: a create_note requested with an input id that named no artifact in
\* the store and that is not interrupted ends with the error result listing
\* exactly those ids; the note it created is gone from the store, the latest
\* pointer names a stored artifact and no exception leaves the turn.
InvalidIdsAreReported ==
    [][\A r \in RunIds :
          (/\ run[r].pc = "monitor"
           /\ task[r].pc \in {"done", "raised"}
           /\ CurrentCall(r).name = "create_note"
           /\ InvalidAtRequest(r) # <<>>
           /\ run'[r] # run[r])
          => /\ run'[r].pc = "exec"
             /\ Len(context_list') = Len(context_list) + 1
             /\ LastEntry(context_list').tool_call_id = CurrentCall(r).id
             /\ LastEntry(context_list').content = InvalidIdsResult(InvalidAtRequest(r)).full
             /\ \A k \in DOMAIN card_dict' : card_dict'[k].creator # CurrentCall(r).id
             /\ latest_card_id' \in DOMAIN card_dict']_vars

\* the step adds an artifact to the store: the user requirement of a run or
\* the in_progress artifact of a launched action
AddsArtifact(r) ==
    \/ run[r].pc = "prepare" /\ run'[r].pc = "turn"
    \/ run[r].pc = "exec" /\ task'[r].pc = "t1"

\* C12: the id under which an artifact is added keys no artifact of the
\* store, so creation never overwrites an artifact.
ArtifactIdsAreFresh ==
    [][\A r \in RunIds : AddsArtifact(r) => latest_card_id' \notin DOMAIN card_dict]_vars

\* C13: an artifact that is completed stays in the store under its id with
\* its status, its explicit predecessors and its content, and no added
\* artifact takes its id.
CompletedArtifactsStay ==
    [][\A k \in DOMAIN card_dict :
          card_dict[k].status = "completed"
          => /\ k \in DOMAIN card_dict'
             /\ card_dict'[k].status = "completed"
             /\ card_dict'[k].card_ref_explicit = card_dict[k].card_ref_explicit
             /\ card_dict'[k].card_type = card_dict[k].card_type
             /\ card_dict'[k].filled = card_dict[k].filled
             /\ card_dict'[k].creator = card_dict[k].creator
             /\ \A r \in RunIds : AddsArtifact(r) => latest_card_id' # k]_vars

\* C14: loading the session from the document it was serialized to gives the
\* same artifact store, history and latest artifact id and the same values of
\* both policy counters.
PersistenceRoundTrip ==
    [][get_project_from_db
       => /\ card_dict' = card_dict
          /\ context_list' = context_list
          /\ latest_card_id' = latest_card_id
          /\ raw_info_tool_calls_since_last_note' = raw_info_tool_calls_since_last_note
          /\ note_calls_since_last_summary' = note_calls_since_last_summary]_vars


\* ------------------------------------------------------------------------
\* Properties of citation tracing
\* ------------------------------------------------------------------------
Returned == trace.outcome = "returned"

Tree == trace.trace_result_tree.value[1]

\* the answer says 'has support' and carries at least one snippet
Supports(answer) ==
    /\ ~answer.raised
    /\ answer.result.has_support
    /\ ~answer.result.list.is_none
    /\ answer.result.list.value # <<>>

ChildrenOf(node) == {node.children.value[i] : i \in 1..Len(node.children.value)}

RECURSIVE Depth(_)
Depth(node) ==
    IF ChildrenOf(node) = {} THEN 1
    ELSE 1 + SetMax({Depth(child) : child \in ChildrenOf(node)})

RECURSIVE Nodes(_)
Nodes(node) == {node} \cup UNION {Nodes(child) : child \in ChildrenOf(node)}

Unsupported(node) == node.support_content_list.is_none

Refs(card_id) == card_dict[card_id].card_ref_explicit

\* card_id heads a chain of three cards linked by explicit predecessors
IsChainOfThree(card_id) ==
    /\ card_id \in DOMAIN card_dict
    /\ Len(Refs(card_id)) = 1
    /\ Len(Refs(Refs(card_id)[1])) = 1
    /\ Refs(Refs(Refs(card_id)[1])[1]) = <<>>

ChainCards(card_id) ==
    {card_id, Refs(card_id)[1], Refs(Refs(card_id)[1])[1]}

\* the trace of a chain of three has ended, its first support query was
\* answered with support and its second one was answered
ChainTraced ==
    /\ trace.outcome \in {"returned", "raised"}
    /\ IsChainOfThree(trace.card_id)
    /\ Len(trace.find_support_log) = 2
    /\ Supports(trace.find_support_log[1].answer)
    /\ ~trace.find_support_log[2].answer.raised

ChainResult ==
    IF Supports(trace.find_support_log[2].answer)
    THEN /\ Returned
         /\ trace.status = "Success"
         /\ Depth(Tree) = 3
         /\ \A node \in Nodes(Tree) : ~node.children.is_none
    ELSE /\ Returned
         /\ trace.status = "Failed"
         /\ Len(Tree.children.value) = 1
         /\ LET second == Tree.children.value[1]
            IN /\ ~second.children.is_none
               /\ Len(second.children.value) = 1
               /\ Unsupported(second.children.value[1])
               /\ second.children.value[1].children.is_none

StatusIsFlagIsUnsupportedNode ==
    Returned =>
        /\ trace.status \in {"Success", "Failed"}
        /\ trace.status = "Failed" <=> trace.trace_failed
        /\ trace.status = "Failed" <=> \E node \in Nodes(Tree) : Unsupported(node)

\* a trace that found support everywhere, made on an agent whose trace
\* before had set the flag
StatusIsFlagIsUnsupportedNodeWitness ==
    /\ Returned
    /\ trace.entered_with
    /\ trace.status = "Success"
    /\ Depth(Tree) >= 2


\* the nodes of the returned tree for which _trace_node_recursive asked
\* predecessors
AskedNodes == {node \in Nodes(Tree) : node.content_to_trace # <<>> /\ Refs(node.card_id) # <<>>}

NoAnswerSupports(node) == \A i \in 1..Len(node.answers) : ~Supports(node.answers[i])

\* C17: a traced node with explicit predecessors none of which answers
\* support with snippets sets the flag and gets one child per predecessor,
\* in predecessor order, each with null snippets, null highlighted content
\* and null children, and none of them is traced.
UnsupportedNodeGetsNullChildren ==
    Returned =>
        \A node \in AskedNodes :
            NoAnswerSupports(node) =>
                /\ trace.trace_failed
                /\ Len(node.answers) = Len(Refs(node.card_id))
                /\ ~node.children.is_none
                /\ Len(node.children.value) = Len(Refs(node.card_id))
                /\ \A k \in 1..Len(Refs(node.card_id)) :
                      LET child == node.children.value[k]
                      IN /\ child.card_id = Refs(node.card_id)[k]
                         /\ child.support_content_list.is_none
                         /\ child.card_main_content_with_highlight.is_none
                         /\ child.children.is_none
                         /\ child.content_to_trace = <<>>
                         /\ child.answers = <<>>

\* a node with two predecessors, asked both, supported by none
UnsupportedNodeGetsNullChildrenWitness ==
    /\ Returned
    /\ \E node \in AskedNodes :
          /\ Len(Refs(node.card_id)) = 2
          /\ Len(node.answers) = 2
          /\ NoAnswerSupports(node)
          /\ Len(node.children.value) = 2

\* the positions of the answers that support, in predecessor order
SupportingPositions(answers) ==
    SelectSeq([i \in 1..Len(answers) |-> i], LAMBDA i : Supports(answers[i]))

\* C18: a traced node with at least one predecessor answering support with
\* snippets has exactly the supporting predecessors as children, in
\* predecessor order, each holding its own snippets and traced with them as
\* the new content; an answer 'has support' with an empty list is no
\* support, and the other predecessors do not set the flag.
SupportedNodeGetsSupportingChildren ==
    Returned =>
        /\ \A node \in AskedNodes :
              ~NoAnswerSupports(node) =>
                  LET at == SupportingPositions(node.answers)
                  IN /\ Len(node.answers) = Len(Refs(node.card_id))
                     /\ ~node.children.is_none
                     /\ Len(node.children.value) = Len(at)
                     /\ \A j \in 1..Len(at) :
                           LET child == node.children.value[j]
                               snippets == node.answers[at[j]].result.list.value
                           IN /\ child.card_id = Refs(node.card_id)[at[j]]
                              /\ child.support_content_list = Some(snippets)
                              /\ ~child.card_main_content_with_highlight.is_none
                              /\ child.content_to_trace = Join(snippets)
                              /\ ~child.children.is_none
        /\ (\A node \in AskedNodes : ~NoAnswerSupports(node)) => ~trace.trace_failed

\* a node whose first predecessor answers 'has support' with an empty list
\* and whose second predecessor supports: one child, the second predecessor
SupportedNodeGetsSupportingChildrenWitness ==
    /\ Returned
    /\ ~trace.trace_failed
    /\ \E node \in AskedNodes :
          /\ Len(node.answers) = 2
          /\ node.answers[1].result.has_support
          /\ node.answers[1].result.list = Some(<<>>)
          /\ Supports(node.answers[2])
          /\ Len(node.children.value) = 1
          /\ node.children.value[1].card_id = Refs(node.card_id)[2]


\* ------------------------------------------------------------------------
\* Properties of the tracing queries
\* ------------------------------------------------------------------------
\* the responses the retry discipline names: no requested action, the wrong
\* action, arguments that do not parse into an argument object, a snippets
\* field that is no array and cannot be repaired
InvalidResponse(kind, response) ==
    \/ ~response.tool_calls
    \/ response.name # ToolNameOf(kind)
    \/ response.json # "object"
    \/ /\ response.list.type \notin {"absent", "list"}
       /\ ~(response.list.type = "str" /\ response.list.repairable)

\* C19: a tracing query calls the generation service at most max_retries
\* times; an invalid response is answered by feedback appended to the
\* conversation and by another call, or by the fatal error after the third
\* one; the first valid response returns at once.
QueriesRetryExactlyOnInvalid ==
    [][(query.outcome = "pending" /\ query'.attempt = query.attempt + 1) =>
          /\ query'.attempt <= max_retries
          /\ IF InvalidResponse(query.kind, query'.response)
             THEN /\ Len(query'.messages) = Len(query.messages) + 2
                  /\ SubSeq(query'.messages, 1, Len(query.messages)) = query.messages
                  /\ query'.outcome = IF query'.attempt = max_retries THEN "raised"
                                      ELSE "pending"
             ELSE /\ query'.outcome = "returned"
                  /\ query'.messages = query.messages]_vars


\* ------------------------------------------------------------------------
\* Properties of the interrupt cleanup
\* ------------------------------------------------------------------------
\* the step runs _cleanup_interrupted_states: in-progress display entries
\* cancelled, the "Interrupted" entry appended
CleanupRuns == chat_list' = CleanupChat(chat_list)

HighestId(cards) == IF DOMAIN cards = {} THEN 0 ELSE SetMax(DOMAIN cards)

\* C20: after _cleanup_interrupted_states the store holds no in-progress
\* artifact, every artifact that was completed is still there, and the
\* latest-artifact pointer is the highest remaining id, or none when the
\* store is empty.
CleanupLeavesHighestCompleted ==
    [][CleanupRuns =>
          /\ \A k \in DOMAIN card_dict' : card_dict'[k].status # "in_progress"
          /\ \A k \in DOMAIN card_dict :
                card_dict[k].status = "completed" =>
                    k \in DOMAIN card_dict' /\ card_dict'[k] = card_dict[k]
          /\ latest_card_id' = HighestId(card_dict')]_vars


\* ------------------------------------------------------------------------
\* Properties of requested actions
\* ------------------------------------------------------------------------
\* the cards a step puts into the store (a new id, or another card under a
\* used id) and the cards it moves from in_progress to completed
CreatedInStep ==
    {k \in DOMAIN card_dict' :
        k \notin DOMAIN card_dict \/ card_dict'[k].creator # card_dict[k].creator}

CompletedInStep ==
    {k \in DOMAIN card_dict \cap DOMAIN card_dict' :
        /\ card_dict'[k].creator = card_dict[k].creator
        /\ card_dict[k].status = "in_progress"
        /\ card_dict'[k].status = "completed"}

\* the requested action r is about to check and launch
Launching(r) == run[r].pc = "exec" /\ run[r].idx <= Len(run[r].tool_calls)

LaunchKind(r) ==
    PreLaunch(CurrentCall(r), raw_info_tool_calls_since_last_note,
              note_calls_since_last_summary).kind

\* C21: a requested action creates at most one artifact and completes at
\* most one, the one it created; an action rejected before launch and
\* finish_turn create none and complete none.
OneArtifactPerAction ==
    [][/\ Cardinality(CreatedInStep) <= 1
       /\ Cardinality(CompletedInStep) <= 1
       /\ \A k \in CreatedInStep :
             card_dict'[k].creator # 0 =>
                 \E r \in RunIds :
                    /\ Launching(r)
                    /\ CurrentCall(r).id = card_dict'[k].creator
                    /\ LaunchKind(r) = "launch"
                    /\ CurrentCall(r).name # "finish_turn"
                    /\ CardsCreatedBy(CurrentCall(r).id) = {}
                    /\ run'[r].pc = "monitor"
       /\ \A k \in CompletedInStep :
             \E r \in RunIds :
                   /\ run[r].pc = "monitor"
                   /\ CurrentCall(r).id = card_dict[k].creator
                   /\ CurrentCall(r).name # "finish_turn"
                   /\ task[r].call = CurrentCall(r).id
                   /\ task[r].card = k
       /\ \A r \in RunIds :
             (Launching(r) /\ run'[r] # run[r]
              /\ (LaunchKind(r) # "launch" \/ CurrentCall(r).name = "finish_turn"))
                 => CreatedInStep = {} /\ CompletedInStep = {}]_vars


\* a launched action has completed the card it created, a finish_turn and a
\* rejected action have been logged
OneArtifactPerActionWitness ==
    /\ \E k \in DOMAIN card_dict :
          card_dict[k].creator # 0 /\ card_dict[k].status = "completed"
    /\ \E i \in 1..Len(ToolEntries) : ToolEntries[i].name = "finish_turn"
    /\ \E i \in 1..Len(ToolEntries) : ToolEntries[i].name = "bogus_tool"


\* the tool_call_ids whose result entries are in a history
LoggedIds(ctx) ==
    {ctx[i].tool_call_id : i \in {n \in 1..Len(ctx) : ctx[n].role = "tool"}}

\* C22: within one turn loop an unfinished action task is the task of the
\* request the loop is at; the result of a launched action is logged only
\* when its task is done or when it is cancelled under the interrupt flag, in
\* the step that ends the task; an action is launched only when the loop has
\* no task and every earlier request of the response has its result logged.
ActionsRunOneAtATime ==
    [][\A r \in RunIds :
          /\ task[r].pc # "none" =>
                /\ run[r].pc = "monitor"
                /\ task[r].call = CurrentCall(r).id
          /\ (task[r].pc # "none"
              /\ task[r].call \in LoggedIds(context_list') \ LoggedIds(context_list)) =>
                /\ task[r].pc = "done" \/ is_interrupted
                /\ task'[r].pc = "none"
          /\ (task[r].pc # "none" /\ run'[r].pc # "monitor") => task'[r].pc = "none"
          /\ task'[r].pc \notin {"none", task[r].pc} /\ task[r].pc = "none" =>
                /\ Launching(r)
                /\ task'[r].call = CurrentCall(r).id
                /\ \A i \in 1..(run[r].idx - 1) :
                      run[r].tool_calls[i].id \in LoggedIds(context_list)]_vars

\* two actions of one response have run one after the other, and an action
\* was cancelled under the interrupt flag
ActionsRunOneAtATimeWitness ==
    /\ \E r \in RunIds :
          /\ Len(run[r].tool_calls) = 2
          /\ \A i \in 1..2 : run[r].tool_calls[i].id \in LoggedIds(context_list)
    /\ \E i \in 1..Len(ToolEntries) :
          Text(ToolEntries[i]) = "Interrupted by user during execution"


SystemPositions == {i \in 1..Len(context_list) : context_list[i].role = "system"}

\* C23: whenever a turn loop has invoked the generation service, the history
\* holds exactly one system entry and it is the first entry.
OneSystemEntryFirst ==
    \A r \in RunIds : run[r].pc = "generating" => SystemPositions = {1}

\* the generation service is invoked in a later run of the session after two
\* earlier invocations
OneSystemEntryFirstWitness ==
    \E r \in RunIds : r > 1 /\ run[r].pc = "generating" /\ llm.turns >= 2


\* the view is built in this step
BuildsView == \E r \in RunIds : run[r].pc = "turn" /\ run'[r].pc = "generating"

\* the number of entries add_system_message puts in front of the history
SystemShift == IF context_list = <<>> \/ context_list[1].role # "system" THEN 1 ELSE 0

\* C24: the step that builds the generation view leaves every entry of the
\* history as it was logged, content and compact content included, in the
\* same order, and adds or removes none (the system entry add_system_message
\* puts in front apart).
ViewLeavesHistoryUnchanged ==
    [][BuildsView =>
          /\ Len(context_list') = Len(context_list) + SystemShift
          /\ \A i \in 1..Len(context_list) :
                context_list'[i + SystemShift] = context_list[i]]_vars

\* a view was built in which a result is rendered compact while the history
\* holds its two renderings
ViewLeavesHistoryUnchangedWitness ==
    /\ ViewBuilt
    /\ \E i \in 1..Len(context_list) :
          /\ IsToolEntry(context_list[i]) /\ Dual(context_list[i])
          /\ RenderedCompact(i)


\* execute_turn of loop r returns in this step
TurnReturns(r) == run[r].pc \in {"turn", "generating", "exec"} /\ run'[r].pc = "turn_done"

\* C25: execute_turn reports last_turn true exactly when is_interrupted was
\* set at its start (then the history and the generation service are left
\* alone), or the response requested no action, or after the last requested
\* action final_result_generated or is_interrupted is set; after a report of
\* false the run loop starts another turn, after a report of true it returns.
LastTurnReportedExactly ==
    [][\A r \in RunIds :
          /\ TurnReturns(r) =>
                /\ run'[r].last_turn =
                      \/ run[r].pc = "turn" /\ is_interrupted
                      \/ /\ run[r].pc = "generating"
                         /\ LastEntry(context_list').role = "assistant"
                         /\ LastEntry(context_list').tool_call_ids = <<>>
                      \/ /\ run[r].pc = "exec"
                         /\ run[r].idx > Len(run[r].tool_calls)
                         /\ final_result_generated \/ is_interrupted
                /\ run[r].pc = "turn" =>
                      /\ is_interrupted
                      /\ context_list' = context_list
                      /\ llm' = llm
                /\ run[r].pc = "exec" => run[r].idx > Len(run[r].tool_calls)
          /\ (run[r].pc = "turn_done" /\ run'[r].pc # "turn_done") =>
                run'[r].pc = IF run[r].last_turn THEN "returned" ELSE "turn"]_vars

\* the first run reported last_turn false after its first response and
\* reports true after the actions of its second response because the
\* interrupt flag is set, no final result being ready
LastTurnReportedExactlyWitness ==
    /\ run[1].pc = "turn_done"
    /\ run[1].last_turn
    /\ run[1].tool_calls # <<>>
    /\ llm.turns >= 2
    /\ is_interrupted
    /\ ~final_result_generated
    /\ \A r \in RunIds \ {1} : run[r].pc = "idle"


FuzzyReturned == highlight.op = "fuzzy" /\ highlight.done

\* C26: _fuzzy_match_in_source returns the text to match itself when it
\* occurs verbatim in the source; what it returns is always a contiguous
\* substring of the source or the unchanged text to match, and it is the
\* text to match whenever that is shorter than 5 characters and when no
\* alignment was found.
FuzzyMatchReturnsSubstringOrTarget ==
    FuzzyReturned =>
        LET target == highlight.snippets[1]
            source == highlight.text
        IN /\ (\E i \in 0..Len(source) : \E j \in i..Len(source) :
                   SubSeq(source, i + 1, j) = target) => highlight.result = target
           /\ \/ highlight.result = target
              \/ \E i \in 0..Len(source) : \E j \in i..Len(source) :
                    SubSeq(source, i + 1, j) = highlight.result
           /\ Len(target) < 5 => highlight.result = target

\* the fuzzy matcher was used: the text to match does not occur in the
\* source and a substring of the source that differs from it is returned
FuzzyMatchReturnsSubstringOrTargetWitness ==
    /\ FuzzyReturned
    /\ highlight.result # highlight.snippets[1]
    /\ highlight.result # <<>>
    /\ Len(highlight.snippets[1]) >= 5


HighlightApplied == highlight.op = "apply" /\ highlight.done

\* the offsets of the text that lie in a range found for a snippet
Covered ==
    {p \in 0..(Len(highlight.text) - 1) :
        \E k \in 1..Len(highlight.ranges) :
            highlight.ranges[k][1] <= p /\ p < highlight.ranges[k][2]}

\* [s, e) is a maximal run of covered offsets
MaximalRun(s, e) ==
    /\ s < e
    /\ \A p \in s..(e - 1) : p \in Covered
    /\ (s - 1) \notin Covered
    /\ e \notin Covered

\* the span holds no table separator and no list marker
SeparatorFree(span) ==
    /\ \A p \in 1..Len(span) : span[p] # "|"
    /\ ~(Len(span) >= 2 /\ span[1] = "-" /\ span[2] = " ")
    /\ \A p \in 1..(Len(span) - 2) :
          ~(span[p] = "\n" /\ span[p + 1] = "-" /\ span[p + 2] = " ")

\* a span as the result must show it: one delimiter pair around a span that
\* is free of separators
Wrapped(span) ==
    IF SeparatorFree(span)
    THEN <<"<highlight>">> \o span \o <<"</highlight>">>
    ELSE apply_highlight_with_separator_handling(span)

\* the text from offset from on, the merged spans from k on being wrapped
\* at their offsets in the text
RECURSIVE WrappedFrom(_, _)
WrappedFrom(from, k) ==
    IF k > Len(highlight.merged)
    THEN Slice(highlight.text, from, Len(highlight.text))
    ELSE Slice(highlight.text, from, highlight.merged[k][1])
         \o Wrapped(Slice(highlight.text, highlight.merged[k][1], highlight.merged[k][2]))
         \o WrappedFrom(highlight.merged[k][2], k + 1)

\* C27: the merged spans of _apply_highlight_to_string are the maximal runs
\* of offsets covered by the located spans, so they are sorted, pairwise
\* disjoint and non-adjacent; the result is the text in which every merged
\* span is wrapped at its offsets in the original text, a span free of
\* separators in exactly one delimiter pair.
MergedSpansWrappedOnce ==
    HighlightApplied =>
        /\ \A i, j \in 1..Len(highlight.merged) :
              i < j => highlight.merged[i][2] < highlight.merged[j][1]
        /\ {highlight.merged[i] : i \in 1..Len(highlight.merged)}
              = {<<s, e>> \in (0..Len(highlight.text)) \X (0..Len(highlight.text)) :
                    MaximalRun(s, e)}
        /\ highlight.result = WrappedFrom(0, 1)

\* the spans [0,5) and [3,8) were located and the result has one delimiter
\* pair around [0,8)
MergedSpansWrappedOnceWitness ==
    /\ HighlightApplied
    /\ highlight.ranges = <<<<0, 5>>, <<3, 8>>>>
    /\ highlight.merged = <<<<0, 8>>>>
    /\ highlight.result = <<"<highlight>">> \o highlight.text \o <<"</highlight>">>


\* the number of cards on the longest explicit-predecessor path from card_id
RECURSIVE LongestPath(_)
LongestPath(card_id) ==
    IF Refs(card_id) = <<>> THEN 1
    ELSE 1 + SetMax({LongestPath(Refs(card_id)[i]) : i \in 1..Len(Refs(card_id))})

\* the number of explicit-predecessor paths that start at card_id and have
\* at least one edge
RECURSIVE PathCount(_)
PathCount(card_id) ==
    LET per == [i \in 1..Len(Refs(card_id)) |-> 1 + PathCount(Refs(card_id)[i])]
        sum[i \in 0..Len(per)] == IF i = 0 THEN 0 ELSE sum[i - 1] + per[i]
    IN sum[Len(per)]

\* the support queries made for the nodes of a subtree
RECURSIVE QueryCount(_)
QueryCount(node) ==
    LET kids == IF node.children.is_none THEN <<>> ELSE node.children.value
        sum[i \in 0..Len(kids)] == IF i = 0 THEN 0 ELSE sum[i - 1] + QueryCount(kids[i])
    IN Len(node.answers) + sum[Len(kids)]

\* C28: a trace_source that returns has made as many support queries as its
\* traced nodes with explicit predecessors account for, at most one per
\* explicit-predecessor path from the root; the depth of its tree is at most
\* the number of cards on the longest such path; a traced node whose card
\* has no explicit predecessors has an empty child list and no query, and a
\* root without explicit predecessors leaves the failure flag unset.
TraceIsBoundedByThePredecessorGraph ==
    Returned =>
        /\ Len(trace.find_support_log) = QueryCount(Tree)
        /\ Len(trace.find_support_log) <= PathCount(trace.card_id)
        /\ Depth(Tree) <= LongestPath(trace.card_id)
        /\ \A node \in Nodes(Tree) :
              (~Unsupported(node) /\ Refs(node.card_id) = <<>>) =>
                  /\ ~node.children.is_none
                  /\ node.children.value = <<>>
                  /\ node.answers = <<>>
        /\ Refs(trace.card_id) = <<>> =>
              /\ trace.find_support_log = <<>>
              /\ ~trace.trace_failed

\* a returned tree as deep as the longest path of three cards, whose deepest
\* node is a traced card without explicit predecessors
TraceIsBoundedByThePredecessorGraphWitness ==
    /\ Returned
    /\ LongestPath(trace.card_id) = 3
    /\ Depth(Tree) = 3
    /\ ~trace.trace_failed
    /\ \E node \in Nodes(Tree) :
          /\ ~Unsupported(node)
          /\ Refs(node.card_id) = <<>>
          /\ node.children = Some(<<>>)


\* the step logs an error result for the request, its text one of tags, and
\* launches nothing
LogsError(r, tags) ==
    /\ Len(context_list') = Len(context_list) + 1
    /\ LastEntry(context_list').tool_call_id = CurrentCall(r).id
    /\ Text(LastEntry(context_list')) \in tags
    /\ task' = task

SchemaErrors ==
    {"Argument Error: missing required argument(s)", "Argument Error: unknown argument(s)"}

PolicyErrors ==
    {"Error: raw information collection tool calls without creating a note",
     "Error: create_note calls without creating a progress summary note"}

\* C29: the step that takes up a request logs the error of the first check
\* that fails, in the order argument parsing, unknown action name, schema
\* validation, workflow policy, and launches the action only if none fails.
\* A payload that parses but is no object of named arguments fails parsing
\* or, after the name check, schema validation.
FirstFailingCheckDecides ==
    [][\A r \in RunIds :
          (Launching(r) /\ run'[r] # run[r]) =>
              LET call == CurrentCall(r)
                  unknown_name == call.name \notin available_tool_functions
              IN IF call.json = "unparseable"
                 THEN LogsError(r, {"Failed to parse tool arguments"})
                 ELSE IF call.json # "object"
                 THEN LogsError(r, {"Failed to parse tool arguments"}
                                   \cup (IF unknown_name THEN {"Unknown tool"}
                                         ELSE SchemaErrors))
                 ELSE IF unknown_name
                 THEN LogsError(r, {"Unknown tool"})
                 ELSE IF ToolSchema(call.name).required \ call.keys # {}
                 THEN LogsError(r, {"Argument Error: missing required argument(s)"})
                 ELSE IF call.keys \ ToolSchema(call.name).properties # {}
                 THEN LogsError(r, {"Argument Error: unknown argument(s)"})
                 ELSE IF \/ IsRaw(call) /\ raw_info_tool_calls_since_last_note >= 3
                         \/ /\ call.name = "create_note"
                            /\ ~call.is_progress_summary_note
                            /\ note_calls_since_last_summary >= 3
                 THEN LogsError(r, PolicyErrors)
                 ELSE run'[r].pc = "monitor" \/ is_interrupted]_vars


\* C30: on a schema it finds, _validate_tool_arguments accepts the provided
\* names exactly when every required name is provided and, if the schema
\* declares a property, every provided name is a declared property; a
\* missing required name is reported in preference to an unknown name; a
\* schema without properties accepts unknown names.
ArgumentsAcceptedExactly ==
    (validation.done /\ validation.schema.found) =>
        LET required == validation.schema.required
            properties == validation.schema.properties
            provided == validation.provided
            complete == \A name \in required : name \in provided
            declared == \A name \in provided : name \in properties
        IN /\ validation.result = "" <=> (complete /\ (properties # {} => declared))
           /\ ~complete => validation.result = "Argument Error: missing required argument(s)"
           /\ (complete /\ properties # {} /\ ~declared) =>
                 validation.result = "Argument Error: unknown argument(s)"
           /\ (complete /\ properties = {}) => validation.result = ""

\* a required name is missing and an undeclared name is provided: the
\* missing name is reported
ArgumentsAcceptedExactlyWitness ==
    /\ validation.done
    /\ validation.schema.found
    /\ validation.schema.properties # {}
    /\ validation.schema.required \ validation.provided # {}
    /\ validation.provided \ validation.schema.properties # {}
    /\ validation.result = "Argument Error: missing required argument(s)"

LastCompletedNote(T, P(_)) ==
    IF \E j \in 1..Len(T) : IsNote(T[j]) /\ Executed(T[j]) /\ P(T[j])
    THEN SetMax({j \in 1..Len(T) : IsNote(T[j]) /\ Executed(T[j]) /\ P(T[j])})
    ELSE 0

AnyNote(entry) == TRUE

SummaryNote(entry) == entry.is_progress_summary_note

\* C32: the raw-acquisition actions that ran to their end since the most
\* recent create_note that completed a note (or since the start) are at most
\* 3, and the non-summary notes completed since the most recent completed
\* summary note are at most 3.
CompletedSinceSynthesisWithinCeilings ==
    LET T == ToolEntries
    IN /\ Cardinality({j \in (LastCompletedNote(T, AnyNote) + 1)..Len(T) :
                          IsRaw(T[j]) /\ Executed(T[j])})
              <= MAX_RAW_INFO_TOOL_CALLS_BEFORE_NOTE
       /\ Cardinality({j \in (LastCompletedNote(T, SummaryNote) + 1)..Len(T) :
                          IsNote(T[j]) /\ Executed(T[j]) /\ ~T[j].is_progress_summary_note})
              <= MAX_NOTE_CALLS_BEFORE_SUMMARY

\* the call ids of the response turn loop r is working on
RequestedIds(r) == [i \in 1..Len(run[r].tool_calls) |-> run[r].tool_calls[i].id]

\* the positions of the results with call id id in history ctx
ResultPositions(ctx, id) ==
    {q \in 1..Len(ctx) : IsToolEntry(ctx[q]) /\ ctx[q].tool_call_id = id}

\* C33: when execute_turn returns after the loop over the requested actions,
\* every requested action has exactly one result entry with its call id, the
\* results come after the assistant entry of the turn in request order, and
\* every result entry of the history answers a request of an earlier
\* assistant entry.
EveryRequestAnsweredOnce ==
    [][\A r \in RunIds :
          (run[r].pc = "exec" /\ run'[r].pc = "turn_done") =>
              LET ctx == context_list'
                  ids == RequestedIds(r)
              IN /\ \E p \in 1..Len(ctx) :
                        /\ ctx[p].role = "assistant"
                        /\ ctx[p].tool_call_ids = ids
                        /\ \A i \in 1..Len(ids) :
                               /\ Cardinality(ResultPositions(ctx, ids[i])) = 1
                               /\ \A q \in ResultPositions(ctx, ids[i]) :
                                      /\ p < q
                                      /\ \A j \in 1..(i - 1) :
                                             \A q0 \in ResultPositions(ctx, ids[j]) : q0 < q
                 /\ \A q \in 1..Len(ctx) :
                        IsToolEntry(ctx[q]) =>
                            \E p \in 1..(q - 1) :
                                /\ ctx[p].role = "assistant"
                                /\ ctx[q].tool_call_id \in Range(ctx[p].tool_call_ids)]_vars

\* a turn of the second run has returned whose first action was rejected and
\* whose second action was interrupted
EveryRequestAnsweredOnceWitness ==
    /\ run[2].pc = "turn_done"
    /\ Len(run[2].tool_calls) = 2
    /\ Len(context_list) >= 3
    /\ LastEntry(context_list).tool_call_id = run[2].tool_calls[2].id
    /\ LastEntry(context_list).content = InterruptedResult.full
    /\ context_list[Len(context_list) - 1].tool_call_id = run[2].tool_calls[1].id
    /\ Text(context_list[Len(context_list) - 1]) = "Unknown tool"

\* the result of an action that was launched: it ran to its end, was
\* cancelled, or ended with create_note's invalid-ids error
Launched(entry) ==
    Text(entry) \in {"saved in InfoCard, full result shown",
                     "Interrupted by user during execution",
                     "Argument Error: invalid card IDs"}

\* result i is in the view with its full content; a result with a single
\* rendering counts as full unless a result that moves the cursor follows it
FullInView(i) ==
    /\ RenderedFull(i)
    /\ \/ Dual(context_list[i])
       \/ ~(IF IsRaw(context_list[i]) THEN NoteFollows(context_list, i)
                                      ELSE SummaryFollows(context_list, i))

FullResults(Kind(_)) ==
    {i \in 1..Len(context_list) :
        /\ IsToolEntry(context_list[i]) /\ Kind(context_list[i])
        /\ Launched(context_list[i]) /\ FullInView(i)}

PointerNamesStoredCard ==
    /\ latest_card_id = 0 <=> DOMAIN card_dict = {}
    /\ latest_card_id # 0 => latest_card_id \in DOMAIN card_dict

\* C35: in every state the latest-artifact pointer is none exactly when the
\* store is empty and names a stored artifact otherwise, and the implicit
\* predecessor of an artifact created in a step names an artifact that was in
\* the store before the step.
LatestPointerIsStored ==
    /\ PointerNamesStoredCard
    /\ [][/\ PointerNamesStoredCard'
          /\ \A k \in CreatedInStep :
                 /\ card_dict'[k].card_ref_implicit = ImplicitRef(latest_card_id)
                 /\ Range(card_dict'[k].card_ref_implicit) \subseteq DOMAIN card_dict]_vars

\* cleanup has removed the card of a cancelled action, and an action of the
\* follow-up loop has created a card with an implicit predecessor
LatestPointerIsStoredWitness ==
    /\ \E i \in 1..Len(chat_list) :
           chat_list[i].chat_type = "tool_message" /\ chat_list[i].status = "cancelled"
    /\ task[2].pc = "t1"
    /\ task[2].card \in DOMAIN card_dict
    /\ card_dict[task[2].card].card_ref_implicit # <<>>

\* C36: once a turn has seen the interrupt flag set while monitoring an
\* action, and while the flag is set, the step that takes up a later request
\* of the turn that passes the checks creates no card and no display entry,
\* starts no task, sets no run-control flag and logs the interrupted result
\* under the request's call id.
LaterActionsCancelledBeforeStart ==
    [][\A r \in RunIds :
          (/\ run[r].observed /\ is_interrupted
           /\ Launching(r) /\ LaunchKind(r) = "launch"
           /\ run'[r] # run[r]) =>
              /\ card_dict' = card_dict
              /\ latest_card_id' = latest_card_id
              /\ chat_list' = chat_list
              /\ task' = task
              /\ is_running' = is_running
              /\ final_result_generated' = final_result_generated
              /\ final_result_card_id' = final_result_card_id
              /\ Len(context_list') = Len(context_list) + 1
              /\ SubSeq(context_list', 1, Len(context_list)) = context_list
              /\ LastEntry(context_list').tool_call_id = CurrentCall(r).id
              /\ LastEntry(context_list').content = InterruptedResult.full
              /\ run'[r].idx = run[r].idx + 1]_vars

\* a search was cancelled in flight and the finish_turn requested after it in
\* the same response was cancelled without setting final_result_generated
LaterActionsCancelledBeforeStartWitness ==
    \E r \in RunIds :
        /\ Len(run[r].tool_calls) = 2
        /\ run[r].idx = 3
        /\ run[r].tool_calls[2].name = "finish_turn"
        /\ Len(context_list) >= 2
        /\ LastEntry(context_list).tool_call_id = run[r].tool_calls[2].id
        /\ LastEntry(context_list).content = InterruptedResult.full
        /\ context_list[Len(context_list) - 1].content = InterruptedResult.full
        /\ \E i \in 1..Len(chat_list) :
               chat_list[i].chat_type = "tool_message" /\ chat_list[i].status = "in_progress"
        /\ ~final_result_generated

\* turn loop r is past the generation call of its turn, or between two turns
PastGeneration(r) == run[r].pc \in {"exec", "monitor", "turn_done", "turn"}

\* C37: when the interrupt flag is set while turn loop r is running (the flag
\* was down during the loop and is up later) and r is then past the
\* generation call of its current turn, r starts no generation call from then
\* on, whatever events the controller delivers.
InterruptNeverLost ==
    \A r \in RunIds :
        [](~is_interrupted /\ run[r].pc \in ActivePcs
              => [](is_interrupted /\ PastGeneration(r) => [](run[r].pc # "generating")))

\* C38: whenever no turn loop is executing (none was started, or every
\* started one has returned or was left by an exception), is_running is false.
NotRunningWhenNoLoop == NoTurnLoopActive => ~is_running


\* ------------------------------------------------------------------------
\* The shape of the returned trace tree
\* ------------------------------------------------------------------------
AllSupported(nodes) == \A child \in nodes : ~Unsupported(child)

AllUnsupported(nodes) == \A child \in nodes : Unsupported(child)

\* C39: in every tree trace_source returns the root is a supported node
\* (snippet list not null, children a list); the children of a node are an
\* empty list, or only supported nodes, or only unsupported nodes (null
\* snippet list, null highlighted content, null children), so the two kinds
\* are never siblings and an unsupported node never has children.
TraceTreeShape ==
    Returned =>
        /\ ~Unsupported(Tree)
        /\ \A node \in Nodes(Tree) :
              /\ ~Unsupported(node) =>
                    /\ ~node.children.is_none
                    /\ \/ AllSupported(ChildrenOf(node))
                       \/ AllUnsupported(ChildrenOf(node))
              /\ Unsupported(node) =>
                    /\ node.card_main_content_with_highlight.is_none
                    /\ node.children.is_none

\* a returned tree whose root has two predecessors of which only one
\* supports, and that one has a predecessor that gives no support
TraceTreeShapeWitness ==
    /\ Returned
    /\ Len(Refs(Tree.card_id)) = 2
    /\ Len(Tree.children.value) = 1
    /\ ~Unsupported(Tree.children.value[1])
    /\ Tree.children.value[1].children.value # <<>>
    /\ AllUnsupported(ChildrenOf(Tree.children.value[1]))


\* ------------------------------------------------------------------------
\* Highlighting and the text it is applied to
\* ------------------------------------------------------------------------
Delimiters == {"<highlight>", "</highlight>"}

\* the text with every delimiter deleted
WithoutDelimiters(text) == SelectSeq(text, LAMBDA c : c \notin Delimiters)

HasDelimiter(text) == \E i \in 1..Len(text) : text[i] \in Delimiters

Applied == highlight.op = "apply" /\ highlight.done

\* C40: on a text without delimiters, deleting the delimiters from the
\* output of _apply_highlight_to_string gives the text back, separators and
\* whitespace included, and the output is the text itself when no snippet
\* is located in it.
HighlightOnlyInsertsDelimiters ==
    Applied /\ ~HasDelimiter(highlight.text) =>
        /\ WithoutDelimiters(highlight.result) = highlight.text
        /\ highlight.ranges = <<>> => highlight.result = highlight.text

\* a list text highlighted whole: its items are wrapped one by one and the
\* separators and the whitespace around the items stay outside the wraps
HighlightOnlyInsertsDelimitersWitness ==
    /\ Applied
    /\ has_separator(highlight.text)
    /\ \E i \in 1..Len(highlight.text) : highlight.text[i] \in Whitespace
    /\ highlight.merged = <<<<0, Len(highlight.text)>>>>
    /\ Len(highlight.result) = Len(highlight.text) + 4

====
